---- MODULE Spec2Model ----
(***************************************************************************)
(* Financial recording protocol of the cafe-management back end: sales,    *)
(* invoices, expenses and the cash register, with the product stock they   *)
(* move.  Each action is one HTTP handler run to completion; a thrown      *)
(* exception (a mongoose ValidationError of a save) ends the handler in    *)
(* its catch block with HTTP 500 and keeps the writes made before it.      *)
(*                                                                         *)
(* Money is modelled by integers; a percentage is applied by Pct and the   *)
(* request menus hold only inputs on which the division is exact.          *)
(***************************************************************************)
EXTENDS Integers, Sequences, FiniteSets, TLC

VARIABLES products, sales, invoices, expenses, cashRegister, posts, inflight, resp

vars == <<products, sales, invoices, expenses, cashRegister, posts, inflight, resp>>

----------------------------------------------------------------------------
(* Bounds of the model *)

MaxSales == 1
MaxInvoices == 2
MaxDocs == 1
MaxExpenses == 2
MaxEntries == 3
MaxQty == 2
MaxStock == 4
InitStock == 2
MaxAmount == 2
NumRequests == 2

(* A request field that is absent from the body (JavaScript undefined). *)
Undefined == -1

Owners == {"A"}
LedgerOwners == {"A", "B"}
ProductIds == {"P1", "P2"}
(* An id that resolves to no product of the acting owner. *)
MissingProduct == "P0"

OrZero(x) == IF x = Undefined THEN 0 ELSE x

----------------------------------------------------------------------------
(* Schemas: the validators mongoose runs on save *)

(* Variant: a product is saved whatever its stock *)
ProductValidAny(p) == TRUE

(* Product.stockQuantity: min 0 *)
ProductValid(p) == p.stockQuantity >= 0

(* Sale: created with the default status, the confirmed state cancelSale tests for *)
SaleDefaultStatus == "completed"

----------------------------------------------------------------------------
(* Total and payment-status derivation *)

(* Variant: the discount percentage itself is taken of the amount *)
PctOfDiscount(x, d) == (x * d) \div 100

(* x * (1 - d / 100) *)
Pct(x, d) == (x * (100 - d)) \div 100

(* Variant: an exactly settled document is not yet 'paid' *)
PaymentStatusStrict(remainingAmount, paidAmount) ==
  IF remainingAmount < 0 THEN "paid"
  ELSE IF OrZero(paidAmount) > 0 THEN "partial" ELSE "unpaid"

(* remainingAmount <= 0 ? 'paid' : paidAmount > 0 ? 'partial' : 'unpaid' *)
PaymentStatus(remainingAmount, paidAmount) ==
  IF remainingAmount <= 0 THEN "paid"
  ELSE IF OrZero(paidAmount) > 0 THEN "partial" ELSE "unpaid"

(* Product.findOne({_id, cafeOwner}) *)
FindProduct(prods, id, u) ==
  id \in DOMAIN prods /\ prods[id].cafeOwner = u

Response(op, code, kind) == [op |-> op, code |-> code, kind |-> kind]


----------------------------------------------------------------------------
(* Sales: saleController.js *)

(* Sale schema: paidAmount and tax are non-negative amounts *)
SaleValid(s) == s.paidAmount >= 0 /\ s.tax >= 0

LoopResult(outcome, prods, subtotal, processedItems) ==
  [outcome |-> outcome, products |-> prods, subtotal |-> subtotal,
   items |-> processedItems]

RECURSIVE SaleItems(_, _, _, _, _)
(* Variant: the loop without its stock check *)
SaleItemsNoStockCheck(u, prods, items, subtotal, processedItems) ==
  IF items = <<>> THEN LoopResult("ok", prods, subtotal, processedItems)
  ELSE LET item == Head(items) IN
    IF ~FindProduct(prods, item.product, u)
    THEN LoopResult("NotFound", prods, subtotal, processedItems)
    ELSE
      LET product == prods[item.product]
          itemTotal == Pct(item.quantity * product.price, OrZero(item.discount))
          saved == [product EXCEPT !.stockQuantity = @ - item.quantity]
      IN SaleItems(u, [prods EXCEPT ![item.product] = saved], Tail(items),
                   subtotal + itemTotal,
                   Append(processedItems,
                          [product |-> item.product, quantity |-> item.quantity,
                           unitPrice |-> product.price,
                           discount |-> OrZero(item.discount),
                           total |-> itemTotal]))

(* The loop of createSale over req.body.items: resolve the product, check the
   stock, add the line total, push the processed line, decrement and save the
   product.  A return inside the loop keeps the products saved so far. *)
SaleItems(u, prods, items, subtotal, processedItems) ==
  IF items = <<>> THEN LoopResult("ok", prods, subtotal, processedItems)
  ELSE LET item == Head(items) IN
    IF ~FindProduct(prods, item.product, u)
    THEN LoopResult("NotFound", prods, subtotal, processedItems)
    ELSE IF prods[item.product].stockQuantity < item.quantity
    THEN LoopResult("InsufficientStock", prods, subtotal, processedItems)
    ELSE
      LET product == prods[item.product]
          itemTotal == Pct(item.quantity * product.price, OrZero(item.discount))
          saved == [product EXCEPT !.stockQuantity = @ - item.quantity]
      IN IF ~ProductValid(saved)
         THEN LoopResult("Error", prods, subtotal, processedItems)
         ELSE SaleItems(u, [prods EXCEPT ![item.product] = saved], Tail(items),
                        subtotal + itemTotal,
                        Append(processedItems,
                               [product |-> item.product, quantity |-> item.quantity,
                                unitPrice |-> product.price,
                                discount |-> OrZero(item.discount),
                                total |-> itemTotal]))

(* The Sale document createSale builds after the loop *)
NewSale(u, r, tax, discount, paidAmount, notes) ==
  LET total == Pct(r.subtotal, OrZero(discount)) + OrZero(tax)
      remainingAmount == total - OrZero(paidAmount)
  IN [items |-> r.items, subtotal |-> r.subtotal, tax |-> OrZero(tax),
      discount |-> OrZero(discount), total |-> total,
      paymentStatus |-> PaymentStatus(remainingAmount, paidAmount),
      paidAmount |-> OrZero(paidAmount), remainingAmount |-> remainingAmount,
      status |-> SaleDefaultStatus, notes |-> notes, cafeOwner |-> u]

CreateSale(u, items, tax, discount, paidAmount, notes) ==
  LET r == SaleItems(u, products, items, 0, <<>>)
      sale == NewSale(u, r, tax, discount, paidAmount, notes)
  IN /\ products' = r.products
     /\ UNCHANGED <<invoices, expenses, cashRegister, posts, inflight>>
     /\ CASE r.outcome = "NotFound" ->
               /\ resp' = Response("createSale", 404, "NotFound")
               /\ UNCHANGED sales
          [] r.outcome = "InsufficientStock" ->
               /\ resp' = Response("createSale", 400, "InsufficientStock")
               /\ UNCHANGED sales
          [] r.outcome = "ok" /\ SaleValid(sale) ->
               /\ resp' = Response("createSale", 201, "Created")
               /\ sales' = Append(sales, sale)
          [] OTHER ->
               /\ resp' = Response("createSale", 500, "Unexpected")
               /\ UNCHANGED sales

(* Variant: remainingAmount is left as it was *)
UpdateSalePaymentKeepRemaining(sale, paidAmount) ==
  [sale EXCEPT !.paidAmount = paidAmount,
               !.paymentStatus = PaymentStatus(sale.total - paidAmount, paidAmount)]

(* updateSale: paidAmount with the fields derived from it *)
UpdateSalePayment(sale, paidAmount) ==
  [sale EXCEPT !.paidAmount = paidAmount,
               !.remainingAmount = sale.total - paidAmount,
               !.paymentStatus = PaymentStatus(sale.total - paidAmount, paidAmount)]

(* updateSale: only paidAmount (with the derived fields) and notes *)
UpdateSale(u, id, paidAmount, notes) ==
  /\ UNCHANGED <<products, invoices, expenses, cashRegister, posts, inflight>>
  /\ IF ~(id \in DOMAIN sales /\ sales[id].cafeOwner = u)
     THEN /\ resp' = Response("updateSale", 404, "NotFound")
          /\ UNCHANGED sales
     ELSE LET s1 == IF paidAmount # Undefined
                    THEN UpdateSalePayment(sales[id], paidAmount) ELSE sales[id]
              s2 == IF notes # Undefined THEN [s1 EXCEPT !.notes = notes] ELSE s1
          IN IF SaleValid(s2)
             THEN /\ sales' = [sales EXCEPT ![id] = s2]
                  /\ resp' = Response("updateSale", 200, "OK")
             ELSE /\ UNCHANGED sales
                  /\ resp' = Response("updateSale", 500, "Unexpected")

RECURSIVE RestoreSaleStock(_, _)
(* Variant: only the first line that names a product is restored *)
RestoreSaleStockFirstOnly(prods, items) ==
  IF items = <<>> THEN [ok |-> TRUE, products |-> prods]
  ELSE LET item == Head(items) IN
    IF item.product \notin DOMAIN prods THEN RestoreSaleStock(prods, Tail(items))
    ELSE [ok |-> TRUE,
          products |-> [prods EXCEPT ![item.product].stockQuantity = @ + item.quantity]]

(* Variant: a cancellation that also writes the payment off *)
CancelledAndRefunded(doc) ==
  [doc EXCEPT !.status = "cancelled", !.paidAmount = 0,
              !.remainingAmount = doc.total]

(* sale.status = 'cancelled' / invoice.status = 'cancelled' *)
Cancelled(doc) == [doc EXCEPT !.status = "cancelled"]

(* The stock-restoring loop of cancelSale: Product.findById, not scoped to the
   owner; a product that no longer exists is skipped.  A save that fails its
   validation throws and keeps the products saved before it. *)
RestoreSaleStock(prods, items) ==
  IF items = <<>> THEN [ok |-> TRUE, products |-> prods]
  ELSE LET item == Head(items) IN
    IF item.product \notin DOMAIN prods THEN RestoreSaleStock(prods, Tail(items))
    ELSE LET saved == [prods[item.product] EXCEPT !.stockQuantity = @ + item.quantity]
         IN IF ~ProductValid(saved) THEN [ok |-> FALSE, products |-> prods]
            ELSE RestoreSaleStock([prods EXCEPT ![item.product] = saved], Tail(items))

CancelSale(u, id) ==
  /\ UNCHANGED <<invoices, expenses, cashRegister, posts, inflight>>
  /\ IF ~(id \in DOMAIN sales /\ sales[id].cafeOwner = u)
     THEN /\ resp' = Response("cancelSale", 404, "NotFound")
          /\ UNCHANGED <<sales, products>>
     ELSE IF sales[id].status # "completed"
     THEN /\ resp' = Response("cancelSale", 400, "InvalidState")
          /\ UNCHANGED <<sales, products>>
     ELSE LET r == RestoreSaleStock(products, sales[id].items) IN
          /\ products' = r.products
          /\ IF r.ok
             THEN /\ sales' = [sales EXCEPT ![id] = Cancelled(sales[id])]
                  /\ resp' = Response("cancelSale", 200, "OK")
             ELSE /\ UNCHANGED sales
                  /\ resp' = Response("cancelSale", 500, "Unexpected")

----------------------------------------------------------------------------
(* Cash register: the CashRegister schema and createTransaction *)

NoReference == [type |-> "none", id |-> Undefined]

(* cashRegisterSchema: balance is required, amount has min 0, the enums of
   transactionType, category and reference.type *)
CashRegisterValid(doc) ==
  /\ doc.balance # Undefined
  /\ doc.amount # Undefined /\ doc.amount >= 0
  /\ doc.transactionType \in {"deposit", "withdrawal"}
  /\ doc.category \in {"sale", "expense", "refund", "other"}
  /\ doc.reference.type \in {"none", "sale", "expense", "other"}

(* CashRegister.findOne({cafeOwner}).sort({date: -1}): entries are appended
   with date = now, so the most recent one of an owner is the last one *)
RECURSIVE LastTransaction(_, _)
LastTransaction(entries, u) ==
  IF entries = <<>> THEN <<>>
  ELSE IF entries[Len(entries)].cafeOwner = u THEN <<entries[Len(entries)]>>
  ELSE LastTransaction(SubSeq(entries, 1, Len(entries) - 1), u)

CurrentBalance(entries, u) ==
  IF LastTransaction(entries, u) = <<>> THEN 0
  ELSE LastTransaction(entries, u)[1].balance

(* Variant: a withdrawal adds to the balance as a deposit does *)
NewBalanceAlwaysAdd(currentBalance, transactionType, amount) ==
  currentBalance + amount

(* transactionType === 'deposit' ? currentBalance + amount
                                  : currentBalance - amount *)
NewBalance(currentBalance, transactionType, amount) ==
  IF transactionType = "deposit" THEN currentBalance + amount
  ELSE currentBalance - amount

(* Variant: no withdrawal is refused *)
WithdrawalRefusedNever(transactionType, newBalance) == FALSE

(* transactionType === 'withdrawal' && newBalance < 0 *)
WithdrawalRefused(transactionType, newBalance) ==
  transactionType = "withdrawal" /\ newBalance < 0

CreateTransaction(u, transactionType, amount, category, reference) ==
  LET currentBalance == CurrentBalance(cashRegister, u)
      newBalance == NewBalance(currentBalance, transactionType, amount)
      transaction == [transactionType |-> transactionType, amount |-> amount,
                      balance |-> newBalance, category |-> category,
                      reference |-> reference, cafeOwner |-> u]
  IN /\ UNCHANGED <<products, sales, invoices, expenses, posts, inflight>>
     /\ IF WithdrawalRefused(transactionType, newBalance)
        THEN /\ resp' = Response("createTransaction", 400, "InsufficientFunds")
             /\ UNCHANGED cashRegister
        ELSE IF CashRegisterValid(transaction)
        THEN /\ cashRegister' = Append(cashRegister, transaction)
             /\ resp' = Response("createTransaction", 201, "Created")
        ELSE /\ UNCHANGED cashRegister
             /\ resp' = Response("createTransaction", 500, "Unexpected")

----------------------------------------------------------------------------
(* Expenses: the expense controller *)

(* expenseSchema: amount has min 0 *)
ExpenseValid(e) == e.amount >= 0

(* The CashRegister document createExpense builds: no balance is given *)
ExpenseEntry(u, amount, id) ==
  [transactionType |-> "withdrawal", amount |-> amount, balance |-> Undefined,
   category |-> "expense", reference |-> [type |-> "expense", id |-> id],
   cafeOwner |-> u]

CreateExpense(u, amount) ==
  LET expense == [amount |-> amount, cafeOwner |-> u, deleted |-> FALSE]
      id == Len(expenses) + 1
      entry == ExpenseEntry(u, amount, id)
  IN /\ UNCHANGED <<products, sales, invoices, posts, inflight>>
     /\ IF ~ExpenseValid(expense)
        THEN /\ resp' = Response("createExpense", 500, "Unexpected")
             /\ UNCHANGED <<expenses, cashRegister>>
        ELSE /\ expenses' = Append(expenses, expense)
             /\ IF CashRegisterValid(entry)
                THEN /\ cashRegister' = Append(cashRegister, entry)
                     /\ resp' = Response("createExpense", 201, "Created")
                ELSE /\ UNCHANGED cashRegister
                     /\ resp' = Response("createExpense", 500, "Unexpected")

FindExpense(id, u) ==
  id \in DOMAIN expenses /\ ~expenses[id].deleted /\ expenses[id].cafeOwner = u

(* The entries {'reference.type': 'expense', 'reference.id': id} matches,
   in insertion order; findOneAndUpdate and deleteOne take the first *)
ExpenseEntries(entries, id) ==
  {i \in DOMAIN entries : entries[i].reference = [type |-> "expense", id |-> id]}

FirstOf(S) == CHOOSE i \in S : \A j \in S : i <= j

RemoveAt(seq, i) == SubSeq(seq, 1, i - 1) \o SubSeq(seq, i + 1, Len(seq))

UpdateExpense(u, id, amount) ==
  /\ UNCHANGED <<products, sales, invoices, posts, inflight>>
  /\ IF ~FindExpense(id, u)
     THEN /\ resp' = Response("updateExpense", 404, "NotFound")
          /\ UNCHANGED <<expenses, cashRegister>>
     ELSE LET expense == [expenses[id] EXCEPT !.amount = amount]
              matching == ExpenseEntries(cashRegister, id)
          IN IF ~ExpenseValid(expense)
             THEN /\ resp' = Response("updateExpense", 500, "Unexpected")
                  /\ UNCHANGED <<expenses, cashRegister>>
             ELSE /\ expenses' = [expenses EXCEPT ![id] = expense]
                  /\ cashRegister' =
                       IF matching = {} THEN cashRegister
                       ELSE [cashRegister EXCEPT ![FirstOf(matching)].amount = amount]
                  /\ resp' = Response("updateExpense", 200, "OK")

DeleteExpense(u, id) ==
  /\ UNCHANGED <<products, sales, invoices, posts, inflight>>
  /\ IF ~FindExpense(id, u)
     THEN /\ resp' = Response("deleteExpense", 404, "NotFound")
          /\ UNCHANGED <<expenses, cashRegister>>
     ELSE LET matching == ExpenseEntries(cashRegister, id) IN
          /\ expenses' = [expenses EXCEPT ![id].deleted = TRUE]
          /\ cashRegister' =
               IF matching = {} THEN cashRegister
               ELSE RemoveAt(cashRegister, FirstOf(matching))
          /\ resp' = Response("deleteExpense", 200, "OK")

----------------------------------------------------------------------------
(* Invoices: invoiceController.js and the Invoice schema *)

(* invoiceItemSchema and invoiceSchema: quantity min 1; unitPrice, totalPrice,
   discount, subtotal, tax, total, paidAmount and remainingAmount min 0; enums *)
InvoiceValid(inv) ==
  /\ \A i \in DOMAIN inv.items :
        /\ inv.items[i].quantity >= 1
        /\ inv.items[i].unitPrice >= 0
        /\ inv.items[i].totalPrice >= 0
        /\ inv.items[i].discount >= 0
  /\ inv.type \in {"purchase", "sale"}
  /\ inv.subtotal >= 0 /\ inv.tax >= 0 /\ inv.discount >= 0 /\ inv.total >= 0
  /\ inv.paymentMethod \in {"cash", "card", "transfer", "credit"}
  /\ inv.paymentStatus \in {"paid", "partial", "unpaid"}
  /\ inv.paidAmount >= 0
  /\ inv.remainingAmount >= 0
  /\ inv.status \in {"draft", "confirmed", "cancelled", "void"}

(* The loop of createInvoice over req.body.items: the stock check applies to
   sale invoices only; a sale decrements and a purchase increments the stock *)
RECURSIVE InvoiceItems(_, _, _, _, _, _)
InvoiceItems(u, type, prods, items, subtotal, processedItems) ==
  IF items = <<>> THEN LoopResult("ok", prods, subtotal, processedItems)
  ELSE LET item == Head(items) IN
    IF ~FindProduct(prods, item.product, u)
    THEN LoopResult("NotFound", prods, subtotal, processedItems)
    ELSE IF type = "sale" /\ prods[item.product].stockQuantity < item.quantity
    THEN LoopResult("InsufficientStock", prods, subtotal, processedItems)
    ELSE
      LET product == prods[item.product]
          itemTotal == Pct(item.quantity * product.price, OrZero(item.discount))
          saved == [product EXCEPT !.stockQuantity =
                      IF type = "sale" THEN @ - item.quantity ELSE @ + item.quantity]
      IN IF ~ProductValid(saved)
         THEN LoopResult("Error", prods, subtotal, processedItems)
         ELSE InvoiceItems(u, type, [prods EXCEPT ![item.product] = saved],
                           Tail(items), subtotal + itemTotal,
                           Append(processedItems,
                                  [product |-> item.product,
                                   quantity |-> item.quantity,
                                   unitPrice |-> product.price,
                                   discount |-> OrZero(item.discount),
                                   totalPrice |-> itemTotal]))

(* The Invoice document createInvoice builds after the loop *)
NewInvoice(u, type, r, tax, discount, paymentMethod, paidAmount) ==
  LET total == Pct(r.subtotal, OrZero(discount)) + OrZero(tax)
      remainingAmount == total - OrZero(paidAmount)
  IN [type |-> type, items |-> r.items, subtotal |-> r.subtotal,
      tax |-> OrZero(tax), discount |-> OrZero(discount), total |-> total,
      paymentMethod |-> paymentMethod,
      paymentStatus |-> PaymentStatus(remainingAmount, paidAmount),
      paidAmount |-> OrZero(paidAmount), remainingAmount |-> remainingAmount,
      status |-> "confirmed", cafeOwner |-> u]

(* The CashRegister document createInvoice and updateInvoicePayment build: the
   reference type is 'invoice' and no balance is given *)
InvoiceEntry(u, type, amount, id) ==
  [transactionType |-> IF type = "sale" THEN "deposit" ELSE "withdrawal",
   amount |-> amount, balance |-> Undefined,
   category |-> IF type = "sale" THEN "sale" ELSE "expense",
   reference |-> [type |-> "invoice", id |-> id], cafeOwner |-> u]

CreateInvoice(u, type, items, tax, discount, paymentMethod, paidAmount) ==
  LET r == InvoiceItems(u, type, products, items, 0, <<>>)
      invoice == NewInvoice(u, type, r, tax, discount, paymentMethod, paidAmount)
      id == Len(invoices) + 1
      entry == InvoiceEntry(u, type, paidAmount, id)
  IN /\ products' = r.products
     /\ UNCHANGED <<sales, expenses, posts, inflight>>
     /\ CASE r.outcome = "NotFound" ->
               /\ resp' = Response("createInvoice", 404, "NotFound")
               /\ UNCHANGED <<invoices, cashRegister>>
          [] r.outcome = "InsufficientStock" ->
               /\ resp' = Response("createInvoice", 400, "InsufficientStock")
               /\ UNCHANGED <<invoices, cashRegister>>
          [] r.outcome = "ok" /\ InvoiceValid(invoice) ->
               /\ invoices' = Append(invoices, invoice)
               /\ IF OrZero(paidAmount) > 0
                  THEN IF CashRegisterValid(entry)
                       THEN /\ cashRegister' = Append(cashRegister, entry)
                            /\ resp' = Response("createInvoice", 201, "Created")
                       ELSE /\ UNCHANGED cashRegister
                            /\ resp' = Response("createInvoice", 500, "Unexpected")
                  ELSE /\ UNCHANGED cashRegister
                       /\ resp' = Response("createInvoice", 201, "Created")
          [] OTHER ->
               /\ resp' = Response("createInvoice", 500, "Unexpected")
               /\ UNCHANGED <<invoices, cashRegister>>

FindInvoice(id, u) == id \in DOMAIN invoices /\ invoices[id].cafeOwner = u

(* invoice.remainingAmount <= 0 ? 'paid' : 'partial' *)
InvoicePaymentStatus(remainingAmount) ==
  IF remainingAmount <= 0 THEN "paid" ELSE "partial"

(* Variant: the payment also rewrites the invoice total *)
UpdateInvoicePaymentFieldsRetotal(invoice, paidAmount, paymentMethod) ==
  [invoice EXCEPT !.paidAmount = paidAmount,
                  !.total = paidAmount,
                  !.remainingAmount = 0,
                  !.paymentStatus = "paid",
                  !.paymentMethod = paymentMethod]

(* updateInvoicePayment: paidAmount, remainingAmount, paymentStatus and
   paymentMethod *)
UpdateInvoicePaymentFields(invoice, paidAmount, paymentMethod) ==
  [invoice EXCEPT !.paidAmount = paidAmount,
                  !.remainingAmount = invoice.total - paidAmount,
                  !.paymentStatus = InvoicePaymentStatus(invoice.total - paidAmount),
                  !.paymentMethod = paymentMethod]

(* Variant: a payment equal to the current one is let through *)
PaymentNotRaisedStrict(additionalPayment) == additionalPayment < 0

(* if (additionalPayment <= 0) *)
PaymentNotRaised(additionalPayment) == additionalPayment <= 0

UpdateInvoicePayment(u, id, paidAmount, paymentMethod) ==
  /\ UNCHANGED <<products, sales, expenses, posts, inflight>>
  /\ IF ~FindInvoice(id, u)
     THEN /\ resp' = Response("updateInvoicePayment", 404, "NotFound")
          /\ UNCHANGED <<invoices, cashRegister>>
     ELSE IF invoices[id].status # "confirmed"
     THEN /\ resp' = Response("updateInvoicePayment", 400, "InvalidState")
          /\ UNCHANGED <<invoices, cashRegister>>
     ELSE LET additionalPayment == paidAmount - invoices[id].paidAmount
              invoice == UpdateInvoicePaymentFields(invoices[id], paidAmount,
                                                    paymentMethod)
              entry == InvoiceEntry(u, invoice.type, additionalPayment, id)
          IN IF PaymentNotRaised(additionalPayment)
             THEN /\ resp' = Response("updateInvoicePayment", 400, "InvalidAmount")
                  /\ UNCHANGED <<invoices, cashRegister>>
             ELSE IF ~InvoiceValid(invoice)
             THEN /\ resp' = Response("updateInvoicePayment", 500, "Unexpected")
                  /\ UNCHANGED <<invoices, cashRegister>>
             ELSE /\ invoices' = [invoices EXCEPT ![id] = invoice]
                  /\ IF CashRegisterValid(entry)
                     THEN /\ cashRegister' = Append(cashRegister, entry)
                          /\ resp' = Response("updateInvoicePayment", 200, "OK")
                     ELSE /\ UNCHANGED cashRegister
                          /\ resp' = Response("updateInvoicePayment", 500, "Unexpected")

(* The stock-restoring loop of cancelInvoice: Product.findById, a missing
   product is skipped; a sale gives its quantity back, a purchase takes it
   away, and a save whose stockQuantity would be negative throws *)
RECURSIVE RestoreInvoiceStock(_, _, _)
RestoreInvoiceStock(prods, type, items) ==
  IF items = <<>> THEN [ok |-> TRUE, products |-> prods]
  ELSE LET item == Head(items) IN
    IF item.product \notin DOMAIN prods
    THEN RestoreInvoiceStock(prods, type, Tail(items))
    ELSE LET saved == [prods[item.product] EXCEPT !.stockQuantity =
                         IF type = "sale" THEN @ + item.quantity
                         ELSE @ - item.quantity]
         IN IF ~ProductValid(saved) THEN [ok |-> FALSE, products |-> prods]
            ELSE RestoreInvoiceStock([prods EXCEPT ![item.product] = saved],
                                     type, Tail(items))

CancelInvoice(u, id) ==
  /\ UNCHANGED <<sales, expenses, cashRegister, posts, inflight>>
  /\ IF ~FindInvoice(id, u)
     THEN /\ resp' = Response("cancelInvoice", 404, "NotFound")
          /\ UNCHANGED <<invoices, products>>
     ELSE IF invoices[id].status # "confirmed"
     THEN /\ resp' = Response("cancelInvoice", 400, "InvalidState")
          /\ UNCHANGED <<invoices, products>>
     ELSE LET r == RestoreInvoiceStock(products, invoices[id].type,
                                       invoices[id].items) IN
          /\ products' = r.products
          /\ IF r.ok
             THEN /\ invoices' = [invoices EXCEPT ![id] = Cancelled(invoices[id])]
                  /\ resp' = Response("cancelInvoice", 200, "OK")
             ELSE /\ UNCHANGED invoices
                  /\ resp' = Response("cancelInvoice", 500, "Unexpected")

----------------------------------------------------------------------------
(* Initial state: two products of owner A in stock, no financial record *)

Price == ("P1" :> 10) @@ ("P2" :> 20)

(* The blog posts in the database at the start: a draft and a published one *)
SeedPosts ==
  [s1 |-> [status |-> "draft", publishedAt |-> "null", viewCount |-> 0],
   s2 |-> [status |-> "published", publishedAt |-> "set", viewCount |-> 0]]

(* The requests that can be in progress at the same time, and the position of
   one that has not been received yet *)
Requests == 1..NumRequests
Idle == [pc |-> "idle"]

Init ==
  /\ posts = SeedPosts
  /\ inflight = [r \in Requests |-> Idle]
  /\ products = [p \in ProductIds |->
                   [cafeOwner |-> "A", price |-> Price[p],
                    stockQuantity |-> InitStock]]
  /\ sales = <<>>
  /\ invoices = <<>>
  /\ expenses = <<>>
  /\ cashRegister = <<>>
  /\ resp = Response("none", 0, "none")

StockCapped == \A p \in DOMAIN products' : products'[p].stockQuantity <= MaxStock

----------------------------------------------------------------------------
(* Request menus *)

Lines(refs, discounts) ==
  [product : refs, quantity : 1..MaxQty, discount : discounts]

OneOrTwo(lines) ==
  {<<a>> : a \in lines} \cup {<<a, b>> : a \in lines, b \in lines}

StockItemLists == OneOrTwo(Lines(ProductIds \cup {MissingProduct}, {Undefined}))

PaymentItemLists ==
  {<<[product |-> "P1", quantity |-> q, discount |-> Undefined]>> :
     q \in {1, MaxQty}}
Taxes == {Undefined, 5}
Discounts == {Undefined, 100}
PaidAmounts == {Undefined, 0, 10, 25}
PaymentMethods == {"cash", "card"}
InvoiceTypes == {"sale", "purchase"}

----------------------------------------------------------------------------
(* Sales and the stock they move *)

SalesCreate ==
  \E u \in Owners, items \in StockItemLists :
     /\ Len(sales) < MaxSales
     /\ CreateSale(u, items, Undefined, Undefined, Undefined, Undefined)

SalesCancel == \E u \in Owners, id \in 1..MaxSales : CancelSale(u, id)

NextSales == SalesCreate \/ SalesCancel

SpecSales == Init /\ [][NextSales]_vars

----------------------------------------------------------------------------
(* Payment derivation over sales and invoices: one-line requests, with tax,
   order discount and paid amount varied *)

DocsLeft == Len(sales) + Len(invoices) < MaxDocs

PayCreateSale ==
  \E u \in Owners, items \in PaymentItemLists, tax \in Taxes,
     discount \in Discounts, paidAmount \in PaidAmounts :
     /\ DocsLeft
     /\ CreateSale(u, items, tax, discount, paidAmount, Undefined)

PayUpdateSale ==
  \E u \in Owners, id \in 1..MaxDocs, paidAmount \in PaidAmounts :
     UpdateSale(u, id, paidAmount, Undefined)

PayCancelSale == \E u \in Owners, id \in 1..MaxDocs : CancelSale(u, id)

PayCreateInvoice ==
  \E u \in Owners, type \in InvoiceTypes, items \in PaymentItemLists,
     tax \in Taxes, discount \in Discounts, paidAmount \in PaidAmounts :
     /\ DocsLeft
     /\ CreateInvoice(u, type, items, tax, discount, "cash", paidAmount)
     /\ StockCapped

PayUpdateInvoicePayment ==
  \E u \in Owners, id \in 1..MaxDocs, paidAmount \in PaidAmounts \ {Undefined},
     paymentMethod \in PaymentMethods :
     UpdateInvoicePayment(u, id, paidAmount, paymentMethod)

PayCancelInvoice == \E u \in Owners, id \in 1..MaxDocs : CancelInvoice(u, id)

NextPayment ==
  \/ PayCreateSale \/ PayUpdateSale \/ PayCancelSale
  \/ PayCreateInvoice \/ PayUpdateInvoicePayment \/ PayCancelInvoice

SpecPayment == Init /\ [][NextPayment]_vars

----------------------------------------------------------------------------
(* Invoices and the stock they move *)

InvoiceItemLists == OneOrTwo(Lines(ProductIds, {Undefined}))

InvCreate ==
  \E u \in Owners, type \in InvoiceTypes, items \in InvoiceItemLists,
     paidAmount \in {Undefined, 10} :
     /\ Len(invoices) < MaxInvoices
     /\ CreateInvoice(u, type, items, Undefined, Undefined, "cash", paidAmount)
     /\ StockCapped

InvCancel == \E u \in Owners, id \in 1..MaxInvoices : CancelInvoice(u, id)

NextInvoices == InvCreate \/ InvCancel

SpecInvoices == Init /\ [][NextInvoices]_vars

----------------------------------------------------------------------------
(* The cash register and everything that writes to it *)

Amounts == 0..MaxAmount

LedgerLeft == Len(cashRegister) + Len(expenses) + Len(invoices) < MaxEntries

LedgerTransaction ==
  \E u \in LedgerOwners, transactionType \in {"deposit", "withdrawal"},
     amount \in Amounts :
     /\ LedgerLeft
     /\ CreateTransaction(u, transactionType, amount, "other", NoReference)

LedgerExpense ==
  \E u \in LedgerOwners : LedgerLeft /\ CreateExpense(u, MaxAmount)

LedgerInvoice ==
  \E type \in InvoiceTypes :
     /\ LedgerLeft
     /\ CreateInvoice("A", type, <<[product |-> "P1", quantity |-> 1,
                                   discount |-> Undefined]>>,
                      Undefined, Undefined, "cash", 5)
     /\ StockCapped

LedgerInvoicePayment ==
  \E id \in 1..MaxEntries : UpdateInvoicePayment("A", id, 10, "cash")

NextLedger ==
  LedgerTransaction \/ LedgerExpense \/ LedgerInvoice \/ LedgerInvoicePayment

SpecLedger == Init /\ [][NextLedger]_vars

----------------------------------------------------------------------------
(* Expenses and the cash-register entries that reference them *)

ExpCreate ==
  \E u \in Owners, amount \in Amounts :
     Len(expenses) < MaxExpenses /\ CreateExpense(u, amount)

ExpUpdate ==
  \E u \in Owners, id \in 1..MaxExpenses, amount \in Amounts :
     UpdateExpense(u, id, amount)

ExpDelete == \E u \in Owners, id \in 1..MaxExpenses : DeleteExpense(u, id)

ExpTransaction ==
  \E u \in Owners, transactionType \in {"deposit", "withdrawal"},
     amount \in Amounts \ {0},
     reference \in {NoReference} \cup
                   {[type |-> "expense", id |-> i] : i \in 1..MaxExpenses} :
     /\ Len(cashRegister) < MaxExpenses
     /\ CreateTransaction(u, transactionType, amount, "expense", reference)

NextExpenses == ExpCreate \/ ExpUpdate \/ ExpDelete \/ ExpTransaction

SpecExpenses == Init /\ [][NextExpenses]_vars

----------------------------------------------------------------------------
(* Properties *)

(* The payment status the contract gives for (total, paidAmount) *)
StatusAsClaimed(status, total, paidAmount) ==
  /\ (status = "paid") <=> (paidAmount >= total)
  /\ (status = "unpaid") <=> (paidAmount = 0 /\ 0 < total)
  /\ (status = "partial") <=>
        (~(paidAmount >= total) /\ ~(paidAmount = 0 /\ 0 < total))

(* C1: every persisted Sale and Invoice (total >= 0, paidAmount >= 0) has
   paymentStatus 'paid' iff paidAmount >= total, 'unpaid' iff
   paidAmount = 0 < total, and 'partial' otherwise. *)
PaymentStatusDerived ==
  /\ \A i \in DOMAIN sales :
        (sales[i].total >= 0 /\ sales[i].paidAmount >= 0) =>
           StatusAsClaimed(sales[i].paymentStatus, sales[i].total,
                           sales[i].paidAmount)
  /\ \A i \in DOMAIN invoices :
        (invoices[i].total >= 0 /\ invoices[i].paidAmount >= 0) =>
           StatusAsClaimed(invoices[i].paymentStatus, invoices[i].total,
                           invoices[i].paidAmount)

(* An invoice whose payment was raised by updateInvoicePayment (only it sets
   the method to card) and is still partly paid *)
PaymentStatusWitness ==
  \E i \in DOMAIN invoices :
     /\ resp.op = "updateInvoicePayment"
     /\ invoices[i].paymentMethod = "card"
     /\ invoices[i].paymentStatus = "partial"
     /\ 0 < invoices[i].paidAmount /\ invoices[i].paidAmount < invoices[i].total

(* C2: every persisted Sale and Invoice satisfies
   remainingAmount = total - paidAmount, in every reachable state. *)
RemainingAmountInvariant ==
  /\ \A i \in DOMAIN sales :
        sales[i].remainingAmount = sales[i].total - sales[i].paidAmount
  /\ \A i \in DOMAIN invoices :
        invoices[i].remainingAmount = invoices[i].total - invoices[i].paidAmount

(* A sale that updateSale has overpaid *)
RemainingAmountWitness ==
  /\ resp = Response("updateSale", 200, "OK")
  /\ \E i \in DOMAIN sales :
        sales[i].paidAmount > sales[i].total /\ sales[i].remainingAmount < 0

SomeLineExceedsStock(u, items) ==
  \E i \in DOMAIN items :
     /\ FindProduct(products, items[i].product, u)
     /\ items[i].quantity > products[items[i].product].stockQuantity

AllLinesResolve(u, items) ==
  \A i \in DOMAIN items : FindProduct(products, items[i].product, u)

(* C3: a createSale request in which some line asks for more than the
   product's stock leaves the set of persisted Sales as it was, whatever the
   position of that line, and (its lines all naming products of the owner) is
   answered 400 InsufficientStock. *)
InsufficientStockLeavesSaleUnwritten ==
  [][\A u \in Owners, items \in StockItemLists :
       (/\ SomeLineExceedsStock(u, items)
        /\ CreateSale(u, items, Undefined, Undefined, Undefined, Undefined))
       => /\ sales' = sales
          /\ AllLinesResolve(u, items) =>
               resp' = Response("createSale", 400, "InsufficientStock")]_vars

(* A rejected two-line sale whose first line was in stock *)
InsufficientStockWitness ==
  /\ resp = Response("createSale", 400, "InsufficientStock")
  /\ sales = <<>>
  /\ \E p \in DOMAIN products : products[p].stockQuantity < InitStock

(* C4: a request rejected with InsufficientStock leaves the stockQuantity of
   every Product as it was before the request. *)
InsufficientStockWritesNothing ==
  [][resp'.kind = "InsufficientStock" => products' = products]_vars

RECURSIVE QuantityOf(_, _)
QuantityOf(items, p) ==
  IF items = <<>> THEN 0
  ELSE (IF Head(items).product = p THEN Head(items).quantity ELSE 0)
       + QuantityOf(Tail(items), p)

(* C5: cancelSale on a completed Sale adds every line's quantity back onto its
   Product and sets status = cancelled; on a Sale that is not completed it is
   answered 400 InvalidState and changes neither the Sale nor any stock. *)
CancelSaleRestoresOnce ==
  [][\A u \in Owners, id \in DOMAIN sales :
       (CancelSale(u, id) /\ sales[id].cafeOwner = u) =>
          IF sales[id].status = "completed"
          THEN /\ sales' = [sales EXCEPT ![id].status = "cancelled"]
               /\ \A p \in DOMAIN products :
                     products'[p].stockQuantity =
                        products[p].stockQuantity + QuantityOf(sales[id].items, p)
          ELSE /\ resp' = Response("cancelSale", 400, "InvalidState")
               /\ sales' = sales
               /\ products' = products]_vars

(* The second cancelSale of a two-line sale, refused, the stock back in full *)
CancelSaleWitness ==
  /\ resp = Response("cancelSale", 400, "InvalidState")
  /\ \E i \in DOMAIN sales :
        sales[i].status = "cancelled" /\ Len(sales[i].items) = 2
  /\ \A p \in DOMAIN products : products[p].stockQuantity = InitStock

(* C6: cancelInvoice on a confirmed Invoice restores every line's stock in the
   direction opposite to creation and sets status = cancelled; on any other
   Invoice it is answered InvalidState and changes nothing. *)
CancelInvoiceRestores ==
  [][\A u \in Owners, id \in DOMAIN invoices :
       (CancelInvoice(u, id) /\ invoices[id].cafeOwner = u) =>
          IF invoices[id].status = "confirmed"
          THEN /\ invoices' = [invoices EXCEPT ![id].status = "cancelled"]
               /\ \A p \in DOMAIN products :
                     products'[p].stockQuantity =
                        IF invoices[id].type = "sale"
                        THEN products[p].stockQuantity
                               + QuantityOf(invoices[id].items, p)
                        ELSE products[p].stockQuantity
                               - QuantityOf(invoices[id].items, p)
          ELSE /\ resp' = Response("cancelInvoice", 400, "InvalidState")
               /\ invoices' = invoices
               /\ products' = products]_vars

(* C7: every existing Expense has exactly one CashRegisterEntry referencing
   it, a withdrawal of the Expense's amount, and a deleted Expense has none. *)
ExpenseHasOneEntry ==
  \A id \in DOMAIN expenses :
     IF expenses[id].deleted THEN ExpenseEntries(cashRegister, id) = {}
     ELSE /\ Cardinality(ExpenseEntries(cashRegister, id)) = 1
          /\ \A i \in ExpenseEntries(cashRegister, id) :
                /\ cashRegister[i].transactionType = "withdrawal"
                /\ cashRegister[i].amount = expenses[id].amount

(* C8: a createInvoice that persists an Invoice with paidAmount > 0 writes
   exactly one CashRegisterEntry (deposit for a sale, withdrawal for a
   purchase, amount = paidAmount, referencing the invoice), and none when
   paidAmount = 0. *)
InvoiceCreationMirrored ==
  [][Len(invoices') = Len(invoices) + 1 =>
       LET id == Len(invoices')
           invoice == invoices'[id]
       IN IF invoice.paidAmount > 0
          THEN /\ Len(cashRegister') = Len(cashRegister) + 1
               /\ SubSeq(cashRegister', 1, Len(cashRegister)) = cashRegister
               /\ LET e == cashRegister'[Len(cashRegister')] IN
                    /\ e.transactionType =
                         (IF invoice.type = "sale" THEN "deposit" ELSE "withdrawal")
                    /\ e.amount = invoice.paidAmount
                    /\ e.reference.id = id
          ELSE cashRegister' = cashRegister]_vars

(* The balance of the most recent entry of an owner, 0 when there is none *)
PriorBalance(entries, u) ==
  LET own == {i \in DOMAIN entries : entries[i].cafeOwner = u}
  IN IF own = {} THEN 0
     ELSE entries[CHOOSE i \in own : \A j \in own : j <= i].balance

(* C9: requests processed one at a time, every CashRegisterEntry written
   carries balance = the balance of its owner's most recent prior entry (0
   when there is none) plus amount for a deposit, minus amount for a
   withdrawal. *)
BalanceChained ==
  [][Len(cashRegister') > Len(cashRegister) =>
       /\ SubSeq(cashRegister', 1, Len(cashRegister)) = cashRegister
       /\ Len(cashRegister') = Len(cashRegister) + 1
       /\ LET e == cashRegister'[Len(cashRegister')] IN
            e.balance = PriorBalance(cashRegister, e.cafeOwner)
                          + (IF e.transactionType = "deposit"
                             THEN e.amount ELSE 0 - e.amount)]_vars

(* A withdrawal of owner A chained to A's earlier deposit across an entry of
   owner B *)
BalanceChainedWitness ==
  /\ Len(cashRegister) = 3
  /\ cashRegister[1].cafeOwner = "A" /\ cashRegister[1].transactionType = "deposit"
  /\ cashRegister[2].cafeOwner = "B" /\ cashRegister[2].balance > cashRegister[1].balance
  /\ cashRegister[3].cafeOwner = "A" /\ cashRegister[3].transactionType = "withdrawal"
  /\ cashRegister[3].amount > 0
  /\ cashRegister[3].balance = cashRegister[1].balance - cashRegister[3].amount

(* C10: a direct withdrawal of more than the owner's current balance is
   answered 400 InsufficientFunds and writes no entry; a withdrawal within the
   balance and every deposit are accepted and written. *)
WithdrawalGuard ==
  [][\A u \in LedgerOwners, transactionType \in {"deposit", "withdrawal"},
        amount \in Amounts :
       CreateTransaction(u, transactionType, amount, "other", NoReference) =>
          IF transactionType = "withdrawal"
             /\ amount > PriorBalance(cashRegister, u)
          THEN /\ resp' = Response("createTransaction", 400, "InsufficientFunds")
               /\ cashRegister' = cashRegister
          ELSE /\ resp' = Response("createTransaction", 201, "Created")
               /\ Len(cashRegister') = Len(cashRegister) + 1
               /\ LET e == cashRegister'[Len(cashRegister')] IN
                    /\ e.cafeOwner = u
                    /\ e.transactionType = transactionType
                    /\ e.amount = amount]_vars

(* A withdrawal refused although every owner holds a positive balance *)
WithdrawalGuardWitness ==
  /\ resp = Response("createTransaction", 400, "InsufficientFunds")
  /\ \A u \in LedgerOwners : PriorBalance(cashRegister, u) > 0

(* C11: an Expense whose amount exceeds the owner's running balance is not
   rejected: createExpense answers 201, the Expense is persisted and its
   withdrawal CashRegisterEntry is written. *)
ExpenseOverBalanceAccepted ==
  [][\A u \in Owners, amount \in Amounts :
       (/\ amount > PriorBalance(cashRegister, u)
        /\ CreateExpense(u, amount)) =>
          /\ resp' = Response("createExpense", 201, "Created")
          /\ Len(expenses') = Len(expenses) + 1
          /\ expenses'[Len(expenses')].amount = amount
          /\ Len(cashRegister') = Len(cashRegister) + 1
          /\ LET e == cashRegister'[Len(cashRegister')] IN
               /\ e.transactionType = "withdrawal"
               /\ e.amount = amount
               /\ e.reference = [type |-> "expense", id |-> Len(expenses')]]_vars

(* C12: updateInvoicePayment on an Invoice that is not confirmed is answered
   InvalidState, on a confirmed Invoice with newPaidAmount - paidAmount <= 0
   InvalidAmount, and either refusal leaves the invoices and the cash register
   as they were; no updateInvoicePayment step lowers an Invoice's paidAmount. *)
PaymentUpdateRefusals ==
  [][\A u \in Owners, id \in DOMAIN invoices,
        paidAmount \in PaidAmounts \ {Undefined},
        paymentMethod \in PaymentMethods :
       (/\ invoices[id].cafeOwner = u
        /\ UpdateInvoicePayment(u, id, paidAmount, paymentMethod)) =>
          /\ invoices[id].status # "confirmed" =>
               /\ resp' = Response("updateInvoicePayment", 400, "InvalidState")
               /\ invoices' = invoices /\ cashRegister' = cashRegister
          /\ (/\ invoices[id].status = "confirmed"
              /\ paidAmount - invoices[id].paidAmount <= 0) =>
               /\ resp' = Response("updateInvoicePayment", 400, "InvalidAmount")
               /\ invoices' = invoices /\ cashRegister' = cashRegister
          /\ DOMAIN invoices' = DOMAIN invoices
          /\ \A i \in DOMAIN invoices :
                invoices'[i].paidAmount >= invoices[i].paidAmount]_vars

(* A payment that does not raise an already raised paidAmount, refused *)
PaymentUpdateRefusalsWitness ==
  /\ resp = Response("updateInvoicePayment", 400, "InvalidAmount")
  /\ \E i \in DOMAIN invoices :
        /\ invoices[i].status = "confirmed"
        /\ invoices[i].paymentMethod = "card"
        /\ invoices[i].paidAmount = 10

(* C13: an additional payment on a confirmed Invoice from paidAmount to a
   greater newPaidAmount stores paidAmount = newPaidAmount, remainingAmount =
   total - newPaidAmount and the recomputed paymentStatus, and adds exactly one
   CashRegisterEntry whose amount is newPaidAmount - paidAmount. *)
AdditionalPaymentMirrored ==
  [][\A u \in Owners, id \in DOMAIN invoices,
        paidAmount \in PaidAmounts \ {Undefined},
        paymentMethod \in PaymentMethods :
       (/\ invoices[id].cafeOwner = u
        /\ invoices[id].status = "confirmed"
        /\ paidAmount > invoices[id].paidAmount
        /\ UpdateInvoicePayment(u, id, paidAmount, paymentMethod)) =>
          /\ invoices'[id].paidAmount = paidAmount
          /\ invoices'[id].remainingAmount = invoices[id].total - paidAmount
          /\ invoices'[id].paymentStatus =
               (IF paidAmount >= invoices[id].total THEN "paid" ELSE "partial")
          /\ Len(cashRegister') = Len(cashRegister) + 1
          /\ SubSeq(cashRegister', 1, Len(cashRegister)) = cashRegister
          /\ cashRegister'[Len(cashRegister')].amount =
               paidAmount - invoices[id].paidAmount]_vars

----------------------------------------------------------------------------
(* Sales and invoices under creation, payment update and cancellation, next
   to a cash register that holds direct deposits *)

(* Note texts, each named by a number *)
NoteTexts == {Undefined, 1}

FrameCreateSale ==
  \E u \in Owners, items \in PaymentItemLists, paidAmount \in {Undefined, 10} :
     /\ DocsLeft
     /\ CreateSale(u, items, Undefined, Undefined, paidAmount, Undefined)

FrameUpdateSale ==
  \E u \in Owners, id \in 1..MaxDocs, paidAmount \in {Undefined, 10},
     notes \in NoteTexts :
     UpdateSale(u, id, paidAmount, notes)

FrameCancelSale == \E u \in Owners, id \in 1..MaxDocs : CancelSale(u, id)

FrameCreateInvoice ==
  \E u \in Owners, type \in InvoiceTypes, items \in PaymentItemLists,
     paidAmount \in {Undefined, 10} :
     /\ DocsLeft
     /\ CreateInvoice(u, type, items, Undefined, Undefined, "cash", paidAmount)
     /\ StockCapped

FrameUpdateInvoicePayment ==
  \E u \in Owners, id \in 1..MaxDocs, paymentMethod \in PaymentMethods :
     UpdateInvoicePayment(u, id, 10, paymentMethod)

FrameCancelInvoice == \E u \in Owners, id \in 1..MaxDocs : CancelInvoice(u, id)

FrameDeposit ==
  \E u \in Owners :
     /\ Len(cashRegister) < MaxDocs
     /\ CreateTransaction(u, "deposit", MaxAmount, "sale", NoReference)

NextFrame ==
  \/ FrameCreateSale \/ FrameUpdateSale \/ FrameCancelSale
  \/ FrameCreateInvoice \/ FrameUpdateInvoicePayment \/ FrameCancelInvoice
  \/ FrameDeposit

SpecFrame == Init /\ [][NextFrame]_vars

(* C14: a cancelSale or cancelInvoice step deletes no Sale or Invoice, leaves
   the cash register exactly as it was, and leaves every field of every Sale
   and Invoice but status unchanged (paidAmount, remainingAmount,
   paymentStatus and the line items among them); of a Product it changes
   nothing but stockQuantity. *)
CancellationFrame ==
  [][resp'.op \in {"cancelSale", "cancelInvoice"} =>
       /\ cashRegister' = cashRegister
       /\ expenses' = expenses
       /\ \A p \in DOMAIN products :
             products'[p] =
               [products[p] EXCEPT !.stockQuantity = products'[p].stockQuantity]
       /\ DOMAIN sales' = DOMAIN sales
       /\ DOMAIN invoices' = DOMAIN invoices
       /\ \A i \in DOMAIN sales :
             sales'[i] = [sales[i] EXCEPT !.status = sales'[i].status]
       /\ \A i \in DOMAIN invoices :
             invoices'[i] = [invoices[i] EXCEPT !.status = invoices'[i].status]]_vars

(* A paid sale cancelled, its payment fields and the deposit in the register
   still in place *)
CancellationFrameWitness ==
  /\ resp = Response("cancelSale", 200, "OK")
  /\ Len(cashRegister) >= 1
  /\ \E i \in DOMAIN sales :
        /\ sales[i].status = "cancelled"
        /\ sales[i].paidAmount = 10
        /\ sales[i].paymentStatus = "paid"

(* The fields of a Sale or Invoice fixed at creation *)
SameLines(new, old) ==
  /\ new.items = old.items /\ new.subtotal = old.subtotal
  /\ new.tax = old.tax /\ new.discount = old.discount
  /\ new.total = old.total

(* C15 as stated: the line items, subtotal, tax, discount and total of an
   existing Sale or Invoice never change, and an updateSale or
   updateInvoicePayment step changes nothing of a Sale or Invoice but
   paidAmount, remainingAmount, paymentStatus and notes. *)
OnlyPaymentAndNotesUpdated ==
  [][/\ \A i \in DOMAIN sales :
          i \in DOMAIN sales' /\ SameLines(sales'[i], sales[i])
     /\ \A i \in DOMAIN invoices :
          i \in DOMAIN invoices' /\ SameLines(invoices'[i], invoices[i])
     /\ resp'.op \in {"updateSale", "updateInvoicePayment"} =>
          /\ DOMAIN sales' = DOMAIN sales /\ DOMAIN invoices' = DOMAIN invoices
          /\ \A i \in DOMAIN sales :
                sales'[i] =
                  [sales[i] EXCEPT !.paidAmount = sales'[i].paidAmount,
                                   !.remainingAmount = sales'[i].remainingAmount,
                                   !.paymentStatus = sales'[i].paymentStatus,
                                   !.notes = sales'[i].notes]
          /\ \A i \in DOMAIN invoices :
                invoices'[i] =
                  [invoices[i] EXCEPT
                     !.paidAmount = invoices'[i].paidAmount,
                     !.remainingAmount = invoices'[i].remainingAmount,
                     !.paymentStatus = invoices'[i].paymentStatus]]_vars

(* C15, amended: as above, except that updateInvoicePayment also rewrites the
   Invoice's paymentMethod with the one of the request. *)
OnlyPaymentFieldsUpdated ==
  [][/\ \A i \in DOMAIN sales :
          i \in DOMAIN sales' /\ SameLines(sales'[i], sales[i])
     /\ \A i \in DOMAIN invoices :
          i \in DOMAIN invoices' /\ SameLines(invoices'[i], invoices[i])
     /\ resp'.op \in {"updateSale", "updateInvoicePayment"} =>
          /\ DOMAIN sales' = DOMAIN sales /\ DOMAIN invoices' = DOMAIN invoices
          /\ \A i \in DOMAIN sales :
                sales'[i] =
                  [sales[i] EXCEPT !.paidAmount = sales'[i].paidAmount,
                                   !.remainingAmount = sales'[i].remainingAmount,
                                   !.paymentStatus = sales'[i].paymentStatus,
                                   !.notes = sales'[i].notes]
          /\ \A i \in DOMAIN invoices :
                invoices'[i] =
                  [invoices[i] EXCEPT
                     !.paidAmount = invoices'[i].paidAmount,
                     !.remainingAmount = invoices'[i].remainingAmount,
                     !.paymentStatus = invoices'[i].paymentStatus,
                     !.paymentMethod = invoices'[i].paymentMethod]]_vars

(* An invoice created on cash whose payment update moved it to card *)
OnlyPaymentFieldsUpdatedWitness ==
  /\ resp.op = "updateInvoicePayment"
  /\ \E i \in DOMAIN invoices :
        /\ invoices[i].paymentMethod = "card"
        /\ invoices[i].paidAmount = 10
        /\ invoices[i].total > 10

----------------------------------------------------------------------------
(* Two owners: expenses, and direct transactions whose reference the request
   body supplies *)

ExpenseReferences ==
  {NoReference} \cup {[type |-> "expense", id |-> i] : i \in 1..MaxExpenses}

TenantCreateExpense ==
  \E u \in LedgerOwners :
     Len(expenses) < MaxExpenses /\ CreateExpense(u, 1)

TenantUpdateExpense ==
  \E u \in LedgerOwners, id \in 1..MaxExpenses, amount \in {1, MaxAmount} :
     UpdateExpense(u, id, amount)

TenantDeleteExpense ==
  \E u \in LedgerOwners, id \in 1..MaxExpenses : DeleteExpense(u, id)

TenantTransaction ==
  \E u \in LedgerOwners, reference \in ExpenseReferences :
     /\ Len(cashRegister) < MaxExpenses
     /\ CreateTransaction(u, "deposit", 1, "expense", reference)

NextTenants ==
  \/ TenantCreateExpense \/ TenantUpdateExpense \/ TenantDeleteExpense
  \/ TenantTransaction

SpecTenants == Init /\ [][NextTenants]_vars

(* The records of a collection that belong to owners other than u, in order *)
OfOthers(records, u) == SelectSeq(records, LAMBDA r : r.cafeOwner # u)

(* C16: a request made by owner u modifies or deletes no Expense and no
   CashRegisterEntry (nor any Product, Sale or Invoice) whose cafeOwner is
   another owner. *)
OwnerIsolation ==
  [][\A u \in LedgerOwners :
       (\/ CreateExpense(u, 1)
        \/ \E id \in 1..MaxExpenses, amount \in {1, MaxAmount} :
              UpdateExpense(u, id, amount)
        \/ \E id \in 1..MaxExpenses : DeleteExpense(u, id)
        \/ \E reference \in ExpenseReferences :
              CreateTransaction(u, "deposit", 1, "expense", reference)) =>
          /\ OfOthers(cashRegister', u) = OfOthers(cashRegister, u)
          /\ OfOthers(expenses', u) = OfOthers(expenses, u)
          /\ OfOthers(sales', u) = OfOthers(sales, u)
          /\ OfOthers(invoices', u) = OfOthers(invoices, u)
          /\ \A p \in DOMAIN products :
                products[p].cafeOwner # u => products'[p] = products[p]]_vars

----------------------------------------------------------------------------
(* Products: createProduct and updateProduct *)

(* body(...).optional().isInt / isFloat({ min: 0 }) of the product routes *)
OptionalNonNegative(x) == x = Undefined \/ x >= 0

CreateProduct(u, id, price, stockQuantity) ==
  LET product == [cafeOwner |-> u, price |-> price,
                  stockQuantity |-> OrZero(stockQuantity)]
  IN /\ id \notin DOMAIN products
     /\ UNCHANGED <<sales, invoices, expenses, cashRegister, posts, inflight>>
     /\ IF ~(price >= 0 /\ OptionalNonNegative(stockQuantity))
        THEN /\ resp' = Response("createProduct", 400, "ValidationFailed")
             /\ UNCHANGED products
        ELSE IF ProductValid(product)
        THEN /\ products' = products @@ (id :> product)
             /\ resp' = Response("createProduct", 201, "Created")
        ELSE /\ UNCHANGED products
             /\ resp' = Response("createProduct", 500, "Unexpected")

RECURSIVE Repriced(_, _, _)
(* The lines of a document with the unit price of one product replaced *)
Repriced(items, id, price) ==
  IF items = <<>> THEN <<>>
  ELSE <<IF Head(items).product = id
         THEN [Head(items) EXCEPT !.unitPrice = price] ELSE Head(items)>>
       \o Repriced(Tail(items), id, price)

(* Variant: a price change is carried into the lines of the stored sales *)
UpdateProductRepricing(u, id, price, stockQuantity) ==
  /\ UNCHANGED <<invoices, expenses, cashRegister, posts, inflight>>
  /\ IF ~FindProduct(products, id, u) \/ price = Undefined
     THEN /\ resp' = Response("updateProduct", 404, "NotFound")
          /\ UNCHANGED <<products, sales>>
     ELSE /\ products' = [products EXCEPT ![id].price = price]
          /\ sales' = [i \in DOMAIN sales |->
                         [sales[i] EXCEPT !.items = Repriced(@, id, price)]]
          /\ resp' = Response("updateProduct", 200, "OK")

UpdateProduct(u, id, price, stockQuantity) ==
  /\ UNCHANGED <<sales, invoices, expenses, cashRegister, posts, inflight>>
  /\ IF ~(OptionalNonNegative(price) /\ OptionalNonNegative(stockQuantity))
     THEN /\ resp' = Response("updateProduct", 400, "ValidationFailed")
          /\ UNCHANGED products
     ELSE IF ~FindProduct(products, id, u)
     THEN /\ resp' = Response("updateProduct", 404, "NotFound")
          /\ UNCHANGED products
     ELSE LET p1 == IF price # Undefined
                    THEN [products[id] EXCEPT !.price = price] ELSE products[id]
              p2 == IF stockQuantity # Undefined
                    THEN [p1 EXCEPT !.stockQuantity = stockQuantity] ELSE p1
          IN IF ProductValid(p2)
             THEN /\ products' = [products EXCEPT ![id] = p2]
                  /\ resp' = Response("updateProduct", 200, "OK")
             ELSE /\ UNCHANGED products
                  /\ resp' = Response("updateProduct", 500, "Unexpected")

----------------------------------------------------------------------------
(* Stock under every operation that writes it *)

NewProductIds == {"P3"}
StockRequests == {Undefined, -2, 0, MaxStock}

StockCreateProduct ==
  \E u \in Owners, id \in NewProductIds, stockQuantity \in StockRequests :
     CreateProduct(u, id, 10, stockQuantity)

StockUpdateProduct ==
  \E u \in Owners, id \in {"P1"} \cup NewProductIds, price \in {Undefined, 10},
     stockQuantity \in StockRequests :
     UpdateProduct(u, id, price, stockQuantity)

StockCreateSale ==
  \E u \in Owners, items \in PaymentItemLists :
     /\ DocsLeft
     /\ CreateSale(u, items, Undefined, Undefined, Undefined, Undefined)

StockCancelSale == \E u \in Owners, id \in 1..MaxDocs : CancelSale(u, id)

StockCreateInvoice ==
  \E u \in Owners, type \in InvoiceTypes, items \in PaymentItemLists :
     /\ DocsLeft
     /\ CreateInvoice(u, type, items, Undefined, Undefined, "cash", Undefined)
     /\ StockCapped

StockCancelInvoice == \E u \in Owners, id \in 1..MaxDocs : CancelInvoice(u, id)

NextStock ==
  \/ StockCreateProduct \/ StockUpdateProduct
  \/ StockCreateSale \/ StockCancelSale
  \/ StockCreateInvoice \/ StockCancelInvoice

SpecStock == Init /\ [][NextStock]_vars

(* C17: after any sequence of createProduct, updateProduct, createSale,
   cancelSale, createInvoice and cancelInvoice requests, every persisted
   Product has stockQuantity >= 0. *)
StockNonNegative ==
  \A p \in DOMAIN products : products[p].stockQuantity >= 0

(* The reversal of a purchase whose goods are gone, stopped at stock 0 *)
StockNonNegativeWitness ==
  /\ resp = Response("cancelInvoice", 500, "Unexpected")
  /\ products["P1"].stockQuantity = 0
  /\ \E i \in DOMAIN invoices :
        invoices[i].type = "purchase" /\ invoices[i].status = "confirmed"

----------------------------------------------------------------------------
(* Totals of sales and invoices: line and order discounts of 50 percent on
   amounts that halve exactly, with and without tax *)

PlainLines == [product : {"P1"}, quantity : {1, MaxQty}, discount : {Undefined}]

DiscountLines ==
  [product : {"P2"}, quantity : {1, MaxQty}, discount : {Undefined, 50}]

TotalsItemLists ==
  {<<a>> : a \in PlainLines \cup DiscountLines}
    \cup {<<a, b>> : a \in PlainLines, b \in DiscountLines}

TotalsCreateSale ==
  \E u \in Owners, items \in TotalsItemLists, tax \in Taxes,
     discount \in {Undefined, 50} :
     /\ DocsLeft
     /\ CreateSale(u, items, tax, discount, 20, Undefined)

TotalsCreateInvoice ==
  \E u \in Owners, type \in InvoiceTypes, items \in TotalsItemLists,
     tax \in Taxes, discount \in {Undefined, 50} :
     /\ DocsLeft
     /\ CreateInvoice(u, type, items, tax, discount, "cash", Undefined)
     /\ StockCapped

NextTotals == TotalsCreateSale \/ TotalsCreateInvoice

SpecTotals == Init /\ [][NextTotals]_vars

RECURSIVE SumOf(_, _)
SumOf(lineTotal(_), items) ==
  IF items = <<>> THEN 0 ELSE lineTotal(Head(items)) + SumOf(lineTotal, Tail(items))

SaleLineTotal(line) == line.total
InvoiceLineTotal(line) == line.totalPrice

(* C18: in every Sale and Invoice written by createSale and createInvoice,
   each line total is quantity * product.price * (1 - lineDiscount/100), the
   subtotal is the sum of the line totals, and the total is
   subtotal * (1 - orderDiscount/100) + tax (amounts compared times 100). *)
TotalsComputed ==
  /\ \A i \in DOMAIN sales :
        /\ \A k \in DOMAIN sales[i].items :
              LET line == sales[i].items[k] IN
                line.total * 100 =
                  line.quantity * Price[line.product] * (100 - line.discount)
        /\ sales[i].subtotal = SumOf(SaleLineTotal, sales[i].items)
        /\ sales[i].total * 100 =
             sales[i].subtotal * (100 - sales[i].discount) + sales[i].tax * 100
  /\ \A i \in DOMAIN invoices :
        /\ \A k \in DOMAIN invoices[i].items :
              LET line == invoices[i].items[k] IN
                line.totalPrice * 100 =
                  line.quantity * Price[line.product] * (100 - line.discount)
        /\ invoices[i].subtotal = SumOf(InvoiceLineTotal, invoices[i].items)
        /\ invoices[i].total * 100 =
             invoices[i].subtotal * (100 - invoices[i].discount)
               + invoices[i].tax * 100

(* A sale of two lines with a line discount, an order discount and tax:
   10 + 20 * 0.5 = 20, 20 * 0.5 + 5 = 15, paid 20 *)
TotalsComputedWitness ==
  \E i \in DOMAIN sales :
     /\ Len(sales[i].items) = 2
     /\ sales[i].items[1].total = 10
     /\ sales[i].items[2].discount = 50 /\ sales[i].items[2].total = 10
     /\ sales[i].subtotal = 20
     /\ sales[i].discount = 50 /\ sales[i].tax = 5
     /\ sales[i].total = 15
     /\ sales[i].paidAmount = 20 /\ sales[i].paymentStatus = "paid"
     /\ products["P1"].stockQuantity = InitStock - 1

----------------------------------------------------------------------------
(* Authentication and roles: the auth and checkRole middleware *)

(* The users the tokens below were issued to; "ghost" was deleted since *)
Users ==
  [root   |-> [role |-> "super_admin", isActive |-> TRUE],
   admin  |-> [role |-> "admin", isActive |-> TRUE],
   editor |-> [role |-> "editor", isActive |-> TRUE],
   owner  |-> [role |-> "cafe_owner", isActive |-> TRUE],
   gone   |-> [role |-> "admin", isActive |-> FALSE]]

(* No Authorization header *)
NoToken == "none"
(* A token that jwt.verify refuses: forged, malformed or expired *)
BadToken == "bad"

(* A valid token is named by the id it was signed for *)
ValidTokens == DOMAIN Users \cup {"ghost"}
Tokens == {NoToken, BadToken} \cup ValidTokens

(* verifyToken: the id of the decoded payload, or null *)
VerifyToken(token) == IF token \in ValidTokens THEN token ELSE "null"

(* Variant: an inactive user is let in *)
AuthIgnoringActive(token) ==
  IF token = NoToken THEN [code |-> 401, user |-> "null"]
  ELSE IF VerifyToken(token) = "null" THEN [code |-> 401, user |-> "null"]
  ELSE IF VerifyToken(token) \notin DOMAIN Users
  THEN [code |-> 401, user |-> "null"]
  ELSE [code |-> 200, user |-> VerifyToken(token)]

(* auth: 401 without a token, with a token that does not verify, and for a
   user that is missing or inactive; otherwise req.user is set *)
Auth(token) ==
  IF token = NoToken THEN [code |-> 401, user |-> "null"]
  ELSE IF VerifyToken(token) = "null" THEN [code |-> 401, user |-> "null"]
  ELSE IF \/ VerifyToken(token) \notin DOMAIN Users
          \/ ~Users[VerifyToken(token)].isActive
  THEN [code |-> 401, user |-> "null"]
  ELSE [code |-> 200, user |-> VerifyToken(token)]

(* auth followed by checkRole(roles): the status the chain answers with, 200
   when it reaches the handler *)
Gate(token, roles) ==
  IF Auth(token).code # 200 THEN 401
  ELSE IF Users[Auth(token).user].role \notin roles THEN 403
  ELSE 200

Refused(op, code) ==
  /\ resp' = Response(op, code, IF code = 401 THEN "Unauthenticated"
                                 ELSE "Forbidden")
  /\ UNCHANGED posts

WriterRoles == {"super_admin", "admin", "editor"}
DeleterRoles == {"super_admin", "admin"}

----------------------------------------------------------------------------
(* Blog: the blog controller and the Blog schema *)

(* A status field absent from the request body *)
NoStatus == "undefined"

(* createPost: the document is built without a slug; slug is required and the
   hook that derives it from the title is a pre('save') hook, which runs after
   the validation of save(), so the save is refused *)
CreatePost(token, status) ==
  /\ UNCHANGED <<products, sales, invoices, expenses, cashRegister, inflight>>
  /\ IF Gate(token, WriterRoles) # 200
     THEN Refused("createPost", Gate(token, WriterRoles))
     ELSE /\ resp' = Response("createPost", 500, "Unexpected")
          /\ UNCHANGED posts

(* updatePost: every field is overwritten with the one of the body; an absent
   status unsets the stored one *)
UpdatePost(token, slug, status) ==
  /\ UNCHANGED <<products, sales, invoices, expenses, cashRegister, inflight>>
  /\ IF Gate(token, WriterRoles) # 200
     THEN Refused("updatePost", Gate(token, WriterRoles))
     ELSE IF slug \notin DOMAIN posts
     THEN /\ resp' = Response("updatePost", 404, "NotFound")
          /\ UNCHANGED posts
     ELSE /\ posts' =
               [posts EXCEPT
                  ![slug].publishedAt =
                     IF status = "published" /\ posts[slug].status # "published"
                     THEN "set" ELSE @,
                  ![slug].status = status]
          /\ resp' = Response("updatePost", 200, "OK")

DeletePost(token, slug) ==
  /\ UNCHANGED <<products, sales, invoices, expenses, cashRegister, inflight>>
  /\ IF Gate(token, DeleterRoles) # 200
     THEN Refused("deletePost", Gate(token, DeleterRoles))
     ELSE IF slug \notin DOMAIN posts
     THEN /\ resp' = Response("deletePost", 404, "NotFound")
          /\ UNCHANGED posts
     ELSE /\ posts' = [s \in DOMAIN posts \ {slug} |-> posts[s]]
          /\ resp' = Response("deletePost", 200, "OK")

(* Variant: the listing holds every post that was ever published *)
GetPublicPostsEverPublished ==
  /\ UNCHANGED <<products, sales, invoices, expenses, cashRegister, posts, inflight>>
  /\ resp' = [op |-> "getPublicPosts", code |-> 200, kind |-> "OK",
              posts |-> {s \in DOMAIN posts : posts[s].publishedAt = "set"}]

(* getPublicPosts without category and tag: Blog.find({status: 'published'}) *)
GetPublicPosts ==
  /\ UNCHANGED <<products, sales, invoices, expenses, cashRegister, posts, inflight>>
  /\ resp' = [op |-> "getPublicPosts", code |-> 200, kind |-> "OK",
              posts |-> {s \in DOMAIN posts : posts[s].status = "published"}]

RequestSlugs == {"s1", "s2", "s0"}
StatusRequests == {"draft", "published", "archived", NoStatus}

BlogCreate ==
  \E token \in Tokens, status \in StatusRequests : CreatePost(token, status)

BlogUpdate ==
  \E token \in Tokens, slug \in RequestSlugs, status \in StatusRequests :
     UpdatePost(token, slug, status)

BlogDelete ==
  \E token \in Tokens, slug \in RequestSlugs : DeletePost(token, slug)

BlogPublic == GetPublicPosts

NextBlog == BlogCreate \/ BlogUpdate \/ BlogDelete \/ BlogPublic

SpecBlog == Init /\ [][NextBlog]_vars

(* The token belongs to a user that exists and is active *)
Authenticated(token) ==
  token \in DOMAIN Users /\ Users[token].isActive

(* C19: a request to a protected blog route without a token, with a token that
   does not verify, or for a missing or inactive user is answered 401; an
   authenticated request whose role the route does not allow (an editor
   deleting a post) is answered 403; in both cases no stored record changes. *)
ProtectedRoutesGated ==
  [][\A token \in Tokens, slug \in RequestSlugs, status \in StatusRequests :
       /\ (/\ ~Authenticated(token)
           /\ \/ CreatePost(token, status) \/ UpdatePost(token, slug, status)
              \/ DeletePost(token, slug)) =>
            /\ resp'.code = 401
            /\ UNCHANGED <<posts, products, sales, invoices, expenses,
                           cashRegister>>
       /\ (/\ Authenticated(token) /\ Users[token].role \notin WriterRoles
           /\ CreatePost(token, status) \/ UpdatePost(token, slug, status)) =>
            /\ resp'.code = 403
            /\ UNCHANGED <<posts, products, sales, invoices, expenses,
                           cashRegister>>
       /\ (/\ Authenticated(token) /\ Users[token].role \notin DeleterRoles
           /\ DeletePost(token, slug)) =>
            /\ resp'.code = 403
            /\ UNCHANGED <<posts, products, sales, invoices, expenses,
                           cashRegister>>]_vars

(* A delete refused to a caller whose role does not allow it, the posts in
   place *)
ProtectedRoutesGatedWitness ==
  /\ resp = Response("deletePost", 403, "Forbidden")
  /\ {"s1", "s2"} \subseteq DOMAIN posts

(* C20: the public listing holds exactly the posts whose status is published
   at the time of the request: no draft or archived post, and every post an
   update has published. *)
PublicListingIsPublished ==
  resp.op = "getPublicPosts" =>
    /\ resp.code = 200
    /\ \A s \in DOMAIN posts :
          s \in resp.posts <=> posts[s].status = "published"
    /\ resp.posts \subseteq DOMAIN posts

(* The seeded draft listed after its publication, the seeded published post,
   archived since, left out *)
PublicListingWitness ==
  /\ resp.op = "getPublicPosts"
  /\ resp.posts = {"s1"}
  /\ "s2" \in DOMAIN posts /\ posts["s2"].status = "archived"

----------------------------------------------------------------------------
(* View counter: incrementViewCount, one database operation and the answer *)

(* Variant: the counter is written from a value read before, not incremented
   in place *)
IncrementedFromFirstRead(post) == [post EXCEPT !.viewCount = 1]

(* {$inc: {viewCount: 1}}: the increment is applied by the database to the
   stored value *)
Incremented(post) == [post EXCEPT !.viewCount = @ + 1]

(* Blog.findOneAndUpdate({slug}, {$inc: {viewCount: 1}}, {new: true}): one
   atomic operation of the database, which hands back the updated document, or
   null when no post has the slug *)
IncrementViewCountUpdate(r, slug) ==
  /\ inflight[r] = Idle
  /\ UNCHANGED <<products, sales, invoices, expenses, cashRegister, resp>>
  /\ IF slug \in DOMAIN posts
     THEN /\ posts' = [posts EXCEPT ![slug] = Incremented(posts[slug])]
          /\ inflight' = [inflight EXCEPT ![r] =
                            [pc |-> "answer", op |-> "incrementViewCount",
                             slug |-> slug, found |-> TRUE,
                             viewCount |-> Incremented(posts[slug]).viewCount]]
     ELSE /\ UNCHANGED posts
          /\ inflight' = [inflight EXCEPT ![r] =
                            [pc |-> "answer", op |-> "incrementViewCount",
                             slug |-> slug, found |-> FALSE,
                             viewCount |-> Undefined]]

(* The rest of incrementViewCount: 404 for null, otherwise the viewCount of
   the document the update handed back *)
IncrementViewCountAnswer(r) ==
  /\ inflight[r].pc = "answer" /\ inflight[r].op = "incrementViewCount"
  /\ UNCHANGED <<products, sales, invoices, expenses, cashRegister, posts>>
  /\ inflight' = [inflight EXCEPT ![r].pc = "done"]
  /\ resp' = IF inflight[r].found
             THEN [op |-> "incrementViewCount", code |-> 200, kind |-> "OK",
                   request |-> r, viewCount |-> inflight[r].viewCount]
             ELSE [op |-> "incrementViewCount", code |-> 404,
                   kind |-> "NotFound", request |-> r,
                   viewCount |-> Undefined]

ViewsUpdate ==
  \E r \in Requests, slug \in RequestSlugs : IncrementViewCountUpdate(r, slug)

ViewsAnswer == \E r \in Requests : IncrementViewCountAnswer(r)

(* An editor changing the status of a post while views are counted *)
ViewsEdit ==
  \E slug \in RequestSlugs, status \in {"published", "archived"} :
     UpdatePost("editor", slug, status)

NextViews == ViewsUpdate \/ ViewsAnswer \/ ViewsEdit

SpecViews == Init /\ [][NextViews]_vars

(* The requests whose increment of the post has been applied *)
Counted(slug) ==
  {r \in Requests : /\ inflight[r].pc \in {"answer", "done"}
                    /\ inflight[r].op = "incrementViewCount"
                    /\ inflight[r].slug = slug /\ inflight[r].found}

(* C21: each successful incrementViewCount raises the post's viewCount by
   exactly 1 and answers the new value, and after n of them on a post, however
   they interleave, its viewCount has grown by n. *)
NoViewLost ==
  /\ \A slug \in DOMAIN posts :
        posts[slug].viewCount =
           SeedPosts[slug].viewCount + Cardinality(Counted(slug))
  /\ (resp.op = "incrementViewCount" /\ resp.code = 200) =>
        /\ inflight[resp.request].viewCount \in 1..NumRequests
        /\ resp.viewCount = inflight[resp.request].viewCount
        /\ resp.viewCount <= posts[inflight[resp.request].slug].viewCount

(* Both requests counted on the same post before either has answered, and the
   first answer carries 1 although the post stands at 2 *)
NoViewLostWitness ==
  /\ \A r \in Requests : inflight[r].pc \in {"answer", "done"}
                          /\ inflight[r].slug = "s2" /\ inflight[r].found
  /\ posts["s2"].viewCount = NumRequests
  /\ resp.op = "incrementViewCount" /\ resp.code = 200 /\ resp.viewCount = 1

----------------------------------------------------------------------------
(* createSale as the sequence of its database operations, so that requests
   overlap: Product.findOne and product.save() for each line, then
   sale.save() *)

(* Variant: the save decrements the stored value in place *)
ProductSavedInPlace(stored, local, quantity) ==
  [stored EXCEPT !.stockQuantity = @ - quantity]

(* product.save(): the modified path is written with the value of the
   document in memory *)
ProductSaved(stored, local, quantity) ==
  [stored EXCEPT !.stockQuantity = local.stockQuantity]

(* The request after its answer has been sent *)
Done(st) == [st EXCEPT !.pc = "done"]

(* Product.findOne for the first line still to do, with the two returns and
   the computations that follow it up to product.save() *)
SaleFind(r, st) ==
  LET item == Head(st.todo) IN
  /\ UNCHANGED <<products, sales, invoices, expenses, cashRegister, posts>>
  /\ IF ~FindProduct(products, item.product, st.cafeOwner)
     THEN /\ resp' = Response("createSale", 404, "NotFound")
          /\ inflight' = [inflight EXCEPT ![r] = Done(st)]
     ELSE IF products[item.product].stockQuantity < item.quantity
     THEN /\ resp' = Response("createSale", 400, "InsufficientStock")
          /\ inflight' = [inflight EXCEPT ![r] = Done(st)]
     ELSE /\ UNCHANGED resp
          /\ inflight' =
               [inflight EXCEPT ![r] =
                  [st EXCEPT !.pc = "save",
                             !.product =
                                [products[item.product] EXCEPT
                                   !.stockQuantity = @ - item.quantity]]]

(* A createSale request is received and looks up its first product *)
CreateSaleBegin(r, u, items, tax, discount, paidAmount, notes) ==
  /\ inflight[r] = Idle
  /\ SaleFind(r, [pc |-> "find", op |-> "createSale", cafeOwner |-> u,
                  todo |-> items, items |-> <<>>, subtotal |-> 0,
                  tax |-> tax, discount |-> discount,
                  paidAmount |-> paidAmount, notes |-> notes,
                  product |-> Undefined])

(* The loop comes round to its next line *)
CreateSaleFind(r) ==
  /\ inflight[r].pc = "find" /\ inflight[r].op = "createSale"
  /\ SaleFind(r, inflight[r])

(* await product.save() of the line in hand *)
CreateSaleSaveProduct(r) ==
  LET st == inflight[r]
      item == Head(st.todo)
      itemTotal == Pct(item.quantity * st.product.price, OrZero(item.discount))
  IN
  /\ st.pc = "save" /\ st.op = "createSale"
  /\ UNCHANGED <<sales, invoices, expenses, cashRegister, posts>>
  /\ IF item.product \notin DOMAIN products \/ ~ProductValid(st.product)
     THEN /\ resp' = Response("createSale", 500, "Unexpected")
          /\ inflight' = [inflight EXCEPT ![r] = Done(st)]
          /\ UNCHANGED products
     ELSE /\ products' =
               [products EXCEPT ![item.product] =
                  ProductSaved(products[item.product], st.product,
                               item.quantity)]
          /\ UNCHANGED resp
          /\ inflight' =
               [inflight EXCEPT ![r] =
                  [st EXCEPT
                     !.pc = IF Tail(st.todo) = <<>> THEN "commit" ELSE "find",
                     !.todo = Tail(st.todo),
                     !.subtotal = @ + itemTotal,
                     !.items = Append(@, [product |-> item.product,
                                          quantity |-> item.quantity,
                                          unitPrice |-> st.product.price,
                                          discount |-> OrZero(item.discount),
                                          total |-> itemTotal])]]

(* await sale.save() and the answer *)
CreateSaleCommit(r) ==
  LET st == inflight[r]
      sale == NewSale(st.cafeOwner, st, st.tax, st.discount, st.paidAmount,
                      st.notes)
  IN
  /\ st.pc = "commit" /\ st.op = "createSale"
  /\ UNCHANGED <<products, invoices, expenses, cashRegister, posts>>
  /\ inflight' = [inflight EXCEPT ![r] = Done(st)]
  /\ IF SaleValid(sale)
     THEN /\ sales' = Append(sales, sale)
          /\ resp' = Response("createSale", 201, "Created")
     ELSE /\ UNCHANGED sales
          /\ resp' = Response("createSale", 500, "Unexpected")

(* One line of P1, or a line of P1 followed by one of P2 *)
RaceItemLists ==
  {<<[product |-> "P1", quantity |-> q, discount |-> Undefined]>> :
      q \in 1..MaxQty}
  \cup {<<[product |-> "P1", quantity |-> 1, discount |-> Undefined],
          [product |-> "P2", quantity |-> MaxQty, discount |-> Undefined]>>}

RaceBegin ==
  \E r \in Requests, items \in RaceItemLists :
     CreateSaleBegin(r, "A", items, Undefined, Undefined, Undefined, Undefined)

RaceFind == \E r \in Requests : CreateSaleFind(r)

RaceSaveProduct == \E r \in Requests : CreateSaleSaveProduct(r)

RaceCommit == \E r \in Requests : CreateSaleCommit(r)

NextRace == RaceBegin \/ RaceFind \/ RaceSaveProduct \/ RaceCommit

SpecRace == Init /\ [][NextRace]_vars

RECURSIVE QuantityIn(_, _)
(* The quantity of a product in a list of lines *)
QuantityIn(items, p) ==
  IF items = <<>> THEN 0
  ELSE (IF Head(items).product = p THEN Head(items).quantity ELSE 0)
       + QuantityIn(Tail(items), p)

RECURSIVE QuantitySold(_, _)
(* The quantity of a product in the persisted sales that are not cancelled *)
QuantitySold(docs, p) ==
  IF docs = <<>> THEN 0
  ELSE (IF Head(docs).status # "cancelled"
        THEN QuantityIn(Head(docs).items, p) ELSE 0)
       + QuantitySold(Tail(docs), p)

(* All requests have been answered *)
Quiescent == \A r \in Requests : inflight[r].pc \in {"idle", "done"}

(* The requests that have been answered *)
Answered == {r \in Requests : inflight[r].pc = "done"}

(* C22 as stated: where overlapping sales have sold more of a product than
   was in stock, its persisted stockQuantity is negative. *)
OversoldStockNegative ==
  \A p \in DOMAIN products :
     (Quiescent /\ QuantitySold(sales, p) > InitStock) =>
        products[p].stockQuantity < 0

(* C22: overlapping createSale requests can both pass the stock check before
   either saves, and each then saves the stock it read less its own quantity:
   the persisted stockQuantity never goes negative, and once all requests
   have ended in a created sale it is at least the initial stock less the
   quantities sold, above it when a save has overwritten another. *)
OversoldStockNotNegative ==
  \A p \in DOMAIN products :
     /\ products[p].stockQuantity >= 0
     /\ (Quiescent /\ Len(sales) = Cardinality(Answered)) =>
          products[p].stockQuantity >= InitStock - QuantitySold(sales, p)

(* Two sales of the whole stock of P1 both created; the stock stands at 0 *)
OversoldStockWitness ==
  /\ Quiescent /\ Len(sales) = 2
  /\ \A i \in 1..2 : QuantityIn(sales[i].items, "P1") = InitStock
  /\ products["P1"].stockQuantity = 0
  /\ resp = Response("createSale", 201, "Created")

----------------------------------------------------------------------------
(* createTransaction as its two database operations: the read of the most
   recent entry and the save of the new one *)

(* Variant: the balance is computed again from the entries stored when the
   new entry is saved *)
TransactionSavedFromLatest(entries, transaction) ==
  [transaction EXCEPT
     !.balance = NewBalance(CurrentBalance(entries, transaction.cafeOwner),
                            transaction.transactionType, transaction.amount)]

(* transaction.save(): the document is stored as it was built *)
TransactionSaved(entries, transaction) == transaction

(* CashRegister.findOne(...).sort({date: -1}), the new balance, the refusal
   of a withdrawal and the construction of the document *)
CreateTransactionRead(r, u, transactionType, amount, category, reference) ==
  LET currentBalance == CurrentBalance(cashRegister, u)
      newBalance == NewBalance(currentBalance, transactionType, amount)
      transaction == [transactionType |-> transactionType, amount |-> amount,
                      balance |-> newBalance, category |-> category,
                      reference |-> reference, cafeOwner |-> u]
      st == [pc |-> "save", op |-> "createTransaction",
             currentBalance |-> currentBalance, transaction |-> transaction]
  IN /\ inflight[r] = Idle
     /\ UNCHANGED <<products, sales, invoices, expenses, cashRegister, posts>>
     /\ IF WithdrawalRefused(transactionType, newBalance)
        THEN /\ resp' = Response("createTransaction", 400, "InsufficientFunds")
             /\ inflight' = [inflight EXCEPT ![r] = Done(st)]
        ELSE /\ UNCHANGED resp
             /\ inflight' = [inflight EXCEPT ![r] = st]

(* await transaction.save() and the answer *)
CreateTransactionSave(r) ==
  LET st == inflight[r] IN
  /\ st.pc = "save" /\ st.op = "createTransaction"
  /\ UNCHANGED <<products, sales, invoices, expenses, posts>>
  /\ inflight' = [inflight EXCEPT ![r] = Done(st)]
  /\ IF CashRegisterValid(st.transaction)
     THEN /\ cashRegister' =
               Append(cashRegister, TransactionSaved(cashRegister, st.transaction))
          /\ resp' = Response("createTransaction", 201, "Created")
     ELSE /\ UNCHANGED cashRegister
          /\ resp' = Response("createTransaction", 500, "Unexpected")

(* A deposit that is made and answered before the other requests arrive *)
TellerOpening ==
  \E amount \in Amounts \ {0} :
     /\ cashRegister = <<>>
     /\ \A r \in Requests : inflight[r] = Idle
     /\ CreateTransaction("A", "deposit", amount, "other", NoReference)

TellerRead ==
  \E r \in Requests, transactionType \in {"deposit", "withdrawal"},
     amount \in Amounts \ {0} :
     CreateTransactionRead(r, "A", transactionType, amount, "other",
                           NoReference)

TellerSave == \E r \in Requests : CreateTransactionSave(r)

NextTeller == TellerOpening \/ TellerRead \/ TellerSave

SpecTeller == Init /\ [][NextTeller]_vars

RECURSIVE NetOf(_)
(* Deposits less withdrawals of a list of entries *)
NetOf(entries) ==
  IF entries = <<>> THEN 0
  ELSE (IF Head(entries).transactionType = "deposit"
        THEN Head(entries).amount ELSE 0 - Head(entries).amount)
       + NetOf(Tail(entries))

(* C23: each new entry carries the balance computed from the entry its own
   request read, whatever has been stored since, and a withdrawal is admitted
   against that read balance: two overlapping requests that read the same
   entry both store a balance computed from it. *)
BalanceFromOwnRead ==
  [][\A r \in Requests :
       (CreateTransactionSave(r) /\ resp'.code = 201) =>
          LET st == inflight[r]
              entry == cashRegister'[Len(cashRegister')]
          IN /\ Len(cashRegister') = Len(cashRegister) + 1
             /\ entry.balance =
                  NewBalance(st.currentBalance, entry.transactionType,
                             entry.amount)
             /\ (entry.transactionType = "withdrawal") =>
                   entry.amount <= st.currentBalance]_vars

(* After a deposit of 2, two withdrawals of 2 that both read the balance 2
   are both stored with balance 0: the latest balance is not the sum of the
   entries, and more was withdrawn than the register held *)
BalanceFromOwnReadWitness ==
  /\ Len(cashRegister) = 3 /\ Quiescent
  /\ cashRegister[1].transactionType = "deposit"
  /\ \A i \in 2..3 : /\ cashRegister[i].transactionType = "withdrawal"
                     /\ cashRegister[i].amount = cashRegister[1].amount
                     /\ cashRegister[i].balance = 0
  /\ \A r \in Requests : inflight[r].pc = "done"
                          /\ inflight[r].currentBalance = cashRegister[1].amount
  /\ CurrentBalance(cashRegister, "A") # NetOf(cashRegister)
  /\ NetOf(cashRegister) < 0

----------------------------------------------------------------------------
(* C24: a createInvoice whose lines are all accepted and whose paidAmount is
   greater than the total stores the Invoice with remainingAmount =
   total - paidAmount and paymentStatus paid, and an updateInvoicePayment that
   raises paidAmount above the total does the same. *)
OverpaymentAccepted ==
  [][\A type \in InvoiceTypes, items \in PaymentItemLists, tax \in Taxes,
        discount \in Discounts, paidAmount \in PaidAmounts \ {Undefined},
        id \in 1..MaxDocs :
       LET r == InvoiceItems("A", type, products, items, 0, <<>>)
           invoice == NewInvoice("A", type, r, tax, discount, "cash",
                                 paidAmount)
       IN /\ (/\ CreateInvoice("A", type, items, tax, discount, "cash",
                               paidAmount)
              /\ r.outcome = "ok" /\ paidAmount > invoice.total) =>
               /\ Len(invoices') = Len(invoices) + 1
               /\ invoices'[Len(invoices')].remainingAmount =
                    invoice.total - paidAmount
               /\ invoices'[Len(invoices')].paymentStatus = "paid"
          /\ (/\ UpdateInvoicePayment("A", id, paidAmount, "cash")
              /\ FindInvoice(id, "A") /\ invoices[id].status = "confirmed"
              /\ paidAmount > invoices[id].total) =>
               /\ invoices'[id].paidAmount = paidAmount
               /\ invoices'[id].remainingAmount =
                    invoices[id].total - paidAmount
               /\ invoices'[id].paymentStatus = "paid"]_vars

----------------------------------------------------------------------------
(* Prices: line items against later changes of the product *)

(* deleteProduct: Product.findOne scoped to the owner, then product.remove().
   Document.prototype.remove exists up to mongoose 6 and is gone in mongoose
   7, where the call throws; the repository does not pin the version, so
   either outcome is possible *)
DeleteProduct(u, id, removes) ==
  /\ UNCHANGED <<sales, invoices, expenses, cashRegister, posts, inflight>>
  /\ IF ~FindProduct(products, id, u)
     THEN /\ resp' = Response("deleteProduct", 404, "NotFound")
          /\ UNCHANGED products
     ELSE IF removes
     THEN /\ products' = [p \in DOMAIN products \ {id} |-> products[p]]
          /\ resp' = Response("deleteProduct", 200, "OK")
     ELSE /\ UNCHANGED products
          /\ resp' = Response("deleteProduct", 500, "Unexpected")

PriceRequests == {Undefined, 10, 30}
PriceLines == [product : ProductIds, quantity : {1}, discount : {Undefined, 50}]
PriceItemLists ==
  {<<a>> : a \in PriceLines}
  \cup {<<[product |-> "P1", quantity |-> 1, discount |-> Undefined],
          [product |-> "P2", quantity |-> 1, discount |-> Undefined]>>}

PriceCreateSale ==
  \E items \in PriceItemLists :
     /\ DocsLeft
     /\ CreateSale("A", items, Undefined, Undefined, Undefined, Undefined)

PriceCreateInvoice ==
  \E items \in PriceItemLists :
     /\ DocsLeft
     /\ CreateInvoice("A", "sale", items, Undefined, Undefined, "cash",
                      Undefined)

PriceUpdateProduct ==
  \E id \in ProductIds, price \in PriceRequests :
     UpdateProduct("A", id, price, Undefined)

PriceDeleteProduct ==
  \E id \in ProductIds, removes \in BOOLEAN : DeleteProduct("A", id, removes)

NextPrices ==
  PriceCreateSale \/ PriceCreateInvoice \/ PriceUpdateProduct
  \/ PriceDeleteProduct

SpecPrices == Init /\ [][NextPrices]_vars

(* Every line carries the price its product had before the step *)
PricedAt(items, prods) ==
  \A i \in DOMAIN items :
     /\ items[i].product \in DOMAIN prods
     /\ items[i].unitPrice = prods[items[i].product].price

(* C25: the unitPrice of a line is the product's price when the sale or
   invoice is created, and the lines, subtotal and total of a stored sale or
   invoice stay as they are when updateProduct changes the price or the
   product is deleted. *)
UnitPriceIsACopy ==
  [][/\ \A i \in DOMAIN sales :
          /\ i \in DOMAIN sales'
          /\ sales'[i].items = sales[i].items
          /\ sales'[i].subtotal = sales[i].subtotal
          /\ sales'[i].total = sales[i].total
     /\ \A i \in DOMAIN invoices :
          /\ i \in DOMAIN invoices'
          /\ invoices'[i].items = invoices[i].items
          /\ invoices'[i].subtotal = invoices[i].subtotal
          /\ invoices'[i].total = invoices[i].total
     /\ \A i \in DOMAIN sales' \ DOMAIN sales :
          PricedAt(sales'[i].items, products)
     /\ \A i \in DOMAIN invoices' \ DOMAIN invoices :
          PricedAt(invoices'[i].items, products)]_vars

(* A product repriced, or deleted, after a sale of it: the line keeps the
   price of the day *)
UnitPriceIsACopyWitness ==
  /\ Len(sales) = 1
  /\ sales[1].items[1].product = "P1" /\ sales[1].items[1].unitPrice = 10
  /\ \/ "P1" \notin DOMAIN products
     \/ /\ "P1" \in DOMAIN products /\ products["P1"].price = 30
        /\ resp = Response("updateProduct", 200, "OK")

----------------------------------------------------------------------------
(* Quantities: the route validators and the schema on fractional quantities.
   In this part quantities and stock are counted in hundredths of a unit. *)

Hundred == 100

(* check('items.*.quantity').isFloat({ min: 0.01 }) *)
InvoiceQuantityAccepted(quantity) == quantity >= 1

(* body('items.*.quantity').isInt({ min: 1 }) *)
SaleQuantityAccepted(quantity) ==
  quantity % Hundred = 0 /\ quantity >= Hundred

(* invoiceItemSchema.quantity: min 1 *)
InvoiceItemQuantityValid(quantity) == quantity >= Hundred

InitHundredths ==
  /\ posts = SeedPosts
  /\ inflight = [r \in Requests |-> Idle]
  /\ products = [p \in ProductIds |->
                   [cafeOwner |-> "A", price |-> Price[p],
                    stockQuantity |-> InitStock * Hundred]]
  /\ sales = <<>>
  /\ invoices = <<>>
  /\ expenses = <<>>
  /\ cashRegister = <<>>
  /\ resp = Response("none", 0, "none")

(* createInvoice without a payment: the validation of the route, the loop
   over the lines, then invoice.save() under the validators of the schema *)
CreateInvoiceUnpaid(u, type, items) ==
  LET r == InvoiceItems(u, type, products, items, 0, <<>>)
      invoice == NewInvoice(u, type, r, Undefined, Undefined, "cash",
                            Undefined)
  IN /\ UNCHANGED <<sales, expenses, cashRegister, posts, inflight>>
     /\ IF \E i \in DOMAIN items : ~InvoiceQuantityAccepted(items[i].quantity)
        THEN /\ resp' = Response("createInvoice", 400, "ValidationFailed")
             /\ UNCHANGED <<products, invoices>>
        ELSE /\ products' = r.products
             /\ CASE r.outcome = "NotFound" ->
                       /\ resp' = Response("createInvoice", 404, "NotFound")
                       /\ UNCHANGED invoices
                  [] r.outcome = "InsufficientStock" ->
                       /\ resp' = Response("createInvoice", 400,
                                           "InsufficientStock")
                       /\ UNCHANGED invoices
                  [] /\ r.outcome = "ok" /\ InvoiceValid(invoice)
                     /\ \A i \in DOMAIN invoice.items :
                           InvoiceItemQuantityValid(invoice.items[i].quantity) ->
                       /\ invoices' = Append(invoices, invoice)
                       /\ resp' = Response("createInvoice", 201, "Created")
                  [] OTHER ->
                       /\ resp' = Response("createInvoice", 500, "Unexpected")
                       /\ UNCHANGED invoices

(* createSale behind the validation of its route *)
CreateSaleValidated(u, items) ==
  IF \E i \in DOMAIN items : ~SaleQuantityAccepted(items[i].quantity)
  THEN /\ resp' = Response("createSale", 400, "ValidationFailed")
       /\ UNCHANGED <<products, sales, invoices, expenses, cashRegister,
                      posts, inflight>>
  ELSE CreateSale(u, items, Undefined, Undefined, Undefined, Undefined)

(* 0, 0.01, 0.5, 1 and 1.5 units *)
Quantities == {0, 1, 50, Hundred, 150}

QuantityLine(q) == <<[product |-> "P1", quantity |-> q, discount |-> Undefined]>>

QtyCreateInvoice ==
  \E q \in Quantities :
     DocsLeft /\ CreateInvoiceUnpaid("A", "sale", QuantityLine(q))

QtyCreateSale ==
  \E q \in Quantities : DocsLeft /\ CreateSaleValidated("A", QuantityLine(q))

NextQuantities == QtyCreateInvoice \/ QtyCreateSale

SpecQuantities == InitHundredths /\ [][NextQuantities]_vars

(* C26: createInvoice accepts every line whose quantity is at least 0.01 and
   that is in stock, and persists the Invoice with that quantity; it answers
   ValidationFailed below 0.01; createSale accepts only whole quantities of
   at least 1. *)
FractionalQuantityAccepted ==
  [][\A q \in Quantities :
       /\ (/\ CreateInvoiceUnpaid("A", "sale", QuantityLine(q))
           /\ q <= products["P1"].stockQuantity) =>
            IF q >= 1
            THEN /\ resp'.code = 201
                 /\ Len(invoices') = Len(invoices) + 1
                 /\ invoices'[Len(invoices')].items[1].quantity = q
            ELSE resp'.kind = "ValidationFailed" /\ UNCHANGED invoices
       /\ (/\ CreateSaleValidated("A", QuantityLine(q))
           /\ resp'.code = 201) => (q % Hundred = 0 /\ q >= Hundred)]_vars

----------------------------------------------------------------------------
(* Reading one post: getPostBySlug behind router.get('/:slug') *)

ViewerRoles == {"admin", "editor"}

(* post.status !== 'published' &&
   (!req.user || !['admin', 'editor'].includes(req.user.role)) *)
AccessDenied(post, user) ==
  /\ post.status # "published"
  /\ (user = "null" \/ Users[user].role \notin ViewerRoles)

(* getPostBySlug.  The route runs the handler with no auth middleware before
   it, so req.user is never set, whatever token the request carries *)
GetPostBySlug(token, slug) ==
  LET user == "null" IN
  /\ UNCHANGED <<products, sales, invoices, expenses, cashRegister, posts,
                 inflight>>
  /\ IF slug \notin DOMAIN posts
     THEN resp' = [op |-> "getPostBySlug", code |-> 404, kind |-> "NotFound",
                   slug |-> slug]
     ELSE IF AccessDenied(posts[slug], user)
     THEN resp' = [op |-> "getPostBySlug", code |-> 403, kind |-> "Forbidden",
                   slug |-> slug]
     ELSE resp' = [op |-> "getPostBySlug", code |-> 200, kind |-> "OK",
                   slug |-> slug]

ReaderGet ==
  \E token \in Tokens, slug \in RequestSlugs : GetPostBySlug(token, slug)

ReaderEdit ==
  \E slug \in RequestSlugs, status \in StatusRequests :
     UpdatePost("admin", slug, status)

ReaderDelete == \E slug \in RequestSlugs : DeletePost("admin", slug)

NextReader == ReaderGet \/ ReaderEdit \/ ReaderDelete

SpecReader == Init /\ [][NextReader]_vars

(* C27: a post that is not published is returned by getPostBySlug to a caller
   authenticated as admin or editor and refused with 403 to every other
   caller; a published post is returned to any caller. *)
UnpublishedReadableByStaff ==
  [][\A token \in Tokens, slug \in DOMAIN posts :
       GetPostBySlug(token, slug) =>
          IF posts[slug].status = "published" THEN resp'.code = 200
          ELSE IF Authenticated(token) /\ Users[token].role \in ViewerRoles
          THEN resp'.code = 200
          ELSE resp'.code = 403]_vars

----------------------------------------------------------------------------
(* cancelSale as the sequence of its database operations: Sale.findOne, then
   Product.findById and product.save() for each line, then sale.save() *)

(* Sale.findOne with the two refusals *)
CancelSaleBegin(r, u, id) ==
  /\ inflight[r] = Idle
  /\ UNCHANGED <<products, sales, invoices, expenses, cashRegister, posts>>
  /\ IF ~(id \in DOMAIN sales /\ sales[id].cafeOwner = u)
     THEN /\ resp' = Response("cancelSale", 404, "NotFound")
          /\ inflight' = [inflight EXCEPT ![r] =
                            [pc |-> "done", op |-> "cancelSale", id |-> id]]
     ELSE IF sales[id].status # "completed"
     THEN /\ resp' = Response("cancelSale", 400, "InvalidState")
          /\ inflight' = [inflight EXCEPT ![r] =
                            [pc |-> "done", op |-> "cancelSale", id |-> id]]
     ELSE /\ UNCHANGED resp
          /\ inflight' = [inflight EXCEPT ![r] =
                            [pc |-> IF sales[id].items = <<>> THEN "commit"
                                    ELSE "find",
                             op |-> "cancelSale", id |-> id,
                             todo |-> sales[id].items,
                             product |-> Undefined]]

(* Product.findById for the line in hand; a product that is gone is skipped *)
CancelSaleFind(r) ==
  LET st == inflight[r]
      item == Head(st.todo)
  IN
  /\ st.pc = "find" /\ st.op = "cancelSale"
  /\ UNCHANGED <<products, sales, invoices, expenses, cashRegister, posts,
                 resp>>
  /\ IF item.product \notin DOMAIN products
     THEN inflight' =
            [inflight EXCEPT ![r] =
               [st EXCEPT !.todo = Tail(st.todo),
                          !.pc = IF Tail(st.todo) = <<>> THEN "commit"
                                 ELSE "find"]]
     ELSE inflight' =
            [inflight EXCEPT ![r] =
               [st EXCEPT !.pc = "save",
                          !.product =
                             [products[item.product] EXCEPT
                                !.stockQuantity = @ + item.quantity]]]

(* await product.save() of the line in hand *)
CancelSaleSaveProduct(r) ==
  LET st == inflight[r]
      item == Head(st.todo)
  IN
  /\ st.pc = "save" /\ st.op = "cancelSale"
  /\ UNCHANGED <<sales, invoices, expenses, cashRegister, posts>>
  /\ IF item.product \notin DOMAIN products \/ ~ProductValid(st.product)
     THEN /\ resp' = Response("cancelSale", 500, "Unexpected")
          /\ inflight' = [inflight EXCEPT ![r] = Done(st)]
          /\ UNCHANGED products
     ELSE /\ products' =
               [products EXCEPT ![item.product] =
                  ProductSaved(products[item.product], st.product,
                               item.quantity)]
          /\ UNCHANGED resp
          /\ inflight' =
               [inflight EXCEPT ![r] =
                  [st EXCEPT !.todo = Tail(st.todo),
                             !.pc = IF Tail(st.todo) = <<>> THEN "commit"
                                    ELSE "find"]]

(* sale.status = 'cancelled', await sale.save() and the answer *)
CancelSaleCommit(r) ==
  LET st == inflight[r] IN
  /\ st.pc = "commit" /\ st.op = "cancelSale"
  /\ UNCHANGED <<products, invoices, expenses, cashRegister, posts>>
  /\ sales' = [sales EXCEPT ![st.id] = Cancelled(sales[st.id])]
  /\ resp' = Response("cancelSale", 200, "OK")
  /\ inflight' = [inflight EXCEPT ![r] = Done(st)]

(* A sale that is made and answered before the cancellations arrive *)
UndoOpening ==
  \E items \in RaceItemLists :
     /\ Len(sales) < MaxSales
     /\ \A r \in Requests : inflight[r] = Idle
     /\ CreateSale("A", items, Undefined, Undefined, Undefined, Undefined)

UndoBegin == \E r \in Requests, id \in 1..MaxSales : CancelSaleBegin(r, "A", id)

UndoFind == \E r \in Requests : CancelSaleFind(r)

UndoSaveProduct == \E r \in Requests : CancelSaleSaveProduct(r)

UndoCommit == \E r \in Requests : CancelSaleCommit(r)

NextUndo ==
  UndoOpening \/ UndoBegin \/ UndoFind \/ UndoSaveProduct \/ UndoCommit

SpecUndo == Init /\ [][NextUndo]_vars

(* C28: whatever the number and the interleaving of the cancelSale requests
   on a sale, its quantities are given back to the stock at most once (the
   stock never rises above what it was before the sale), and a cancelled sale
   stays cancelled. *)
RestoredAtMostOnce ==
  /\ \A p \in DOMAIN products : products[p].stockQuantity <= InitStock
  /\ \A p \in DOMAIN products :
        (Quiescent /\ \A i \in DOMAIN sales : sales[i].status = "cancelled") =>
           products[p].stockQuantity = InitStock

----------------------------------------------------------------------------
(* C29: after any sequence of createSale and cancelSale requests that do not
   overlap, accepted or refused, the stockQuantity of every product is its
   initial stock less the quantities of that product in the lines of the
   persisted sales that are not cancelled. *)
StockConserved ==
  \A p \in DOMAIN products :
     products[p].stockQuantity = InitStock - QuantitySold(sales, p)

----------------------------------------------------------------------------
RECURSIVE PaidThroughLedger(_, _)
(* The sum of the amounts of the entries that reference an invoice *)
PaidThroughLedger(entries, id) ==
  IF entries = <<>> THEN 0
  ELSE (IF Head(entries).reference = [type |-> "invoice", id |-> id]
        THEN Head(entries).amount ELSE 0)
       + PaidThroughLedger(Tail(entries), id)

(* C30: after any sequence of completed createInvoice and
   updateInvoicePayment requests, the amounts of the cash-register entries
   that reference an Invoice add up to its stored paidAmount. *)
LedgerAgreesWithInvoices ==
  \A id \in DOMAIN invoices :
     PaidThroughLedger(cashRegister, id) = invoices[id].paidAmount

====
